---------------------------- MODULE Spec2Model ----------------------------
(***************************************************************************)
(* Signed-URL file access of progressnet/ergoflow.                         *)
(*                                                                         *)
(* The File Serving Gateway (secureFilesRoutes, uploadsRoutes) is modelled *)
(* from src/apps/frontend/src/locales/locales-config.ts.  The Token Codec  *)
(* and the Signed URL Service it calls (SignedUrlService, imported from    *)
(* ../services/signed-url-service) are not part of the sources; they are   *)
(* modelled from sections 3, 4.1 and 4.2 of the specification.             *)
(*                                                                         *)
(* Cryptography is symbolic: an HMAC is a term [key, over]; two MACs are   *)
(* equal iff key and message are equal, and nobody can build a MAC under   *)
(* the server secret except by copying a signature segment the server      *)
(* issued.  A client holds the URLs of the latest issuance response and    *)
(* may present any token derivable from them.                              *)
(*                                                                         *)
(* The legacy URL migration helper of the browser side is modelled from    *)
(* src/apps/frontend/src/utils/file-url-converter.ts; the issuance call it *)
(* makes (generateSignedUrlOnce of src/hooks/use-signed-url) is not part   *)
(* of the sources and follows section 4.3.  Spec is the gateway serving    *)
(* requests; ConverterSpec is the helper being called.                     *)
(***************************************************************************)
EXTENDS Integers, Sequences, FiniteSets, TLC

VARIABLES
    now,     \* Date.now() of the server, in ms
    store,   \* files on disk below process.cwd()/uploads, as normalised paths
    held,    \* the signed URLs the latest issuance response handed out
    last,    \* the last request served and its response
    client   \* the browser side: the last call of the migration helper

vars == <<now, store, held, last, client>>

---------------------------------------------------------------------------
(* Bounds of the model *)

\* the clock runs up to MaxMinutes minutes (plus one ms)
MaxMinutes == 2
\* number of signature bits a presenter can flip individually
SigBits == 2
\* longest files array of a batch request
MaxBatch == 2
\* most file parts of one upload request
MaxUpload == 1
\* most files the disk holds
MaxFiles == 2
\* most changes of the url prop of a mounted useConvertedUrl
MaxRenders == 3

---------------------------------------------------------------------------
(* Values *)

\* JavaScript's undefined (a missing field of a request body or of a result)
Undef == "<undefined>"

\* String(v) of a string or undefined
String(v) == IF v = Undef THEN "undefined" ELSE v

\* !v for a string or undefined
Falsy(v) == v = Undef \/ v = ""

\* a || b
OrElse(a, b) == IF Falsy(a) THEN b ELSE a

\* r.k of an object r: undefined when r has no property k
Get(r, k) == IF k \in DOMAIN r THEN r[k] ELSE Undef

\* r.k is truthy, for a boolean property k that may be missing
IsTrue(r, k) == k \in DOMAIN r /\ r[k]

Tenants == {"A", "B"}
Scopes == {"tasks"}
Owners == {"o1"}
Filenames == {"x.png"}
Actions == {"view", "download"}

GrantKeys == {"tenantId", "scope", "ownerId", "filename", "action"}

---------------------------------------------------------------------------
(* Token Codec (specification 4.1) *)

MsPerMinute == 60000
DEFAULT_EXPIRY_MINUTES == 60

SECRET == "server-secret"
OtherKey == "other-key"

\* Canonical JSON text of a grant: the members in a fixed key order, a member
\* whose value is undefined left out.  A member is <<key, string, number>>.
jsonStringify(g) ==
    LET strs == <<"tenantId", "scope", "ownerId", "filename", "action">>
        nums == <<"issuedAt", "expiresAt">>
        S[i \in 0..5] ==
            IF i = 0 THEN <<>>
            ELSE IF strs[i] \in DOMAIN g /\ g[strs[i]] # Undef
                 THEN Append(S[i - 1], <<strs[i], g[strs[i]], 0>>)
                 ELSE S[i - 1]
        N[i \in 0..2] ==
            IF i = 0 THEN S[5]
            ELSE IF nums[i] \in DOMAIN g
                 THEN Append(N[i - 1], <<nums[i], "", g[nums[i]]>>)
                 ELSE N[i - 1]
    IN  [json |-> TRUE, members |-> N[2]]

\* bytes that are no JSON text
NotJson == [json |-> FALSE, members |-> <<>>]

\* JSON.parse: the object of a JSON text (keys to values), or a failure
jsonParse(text) ==
    IF ~text.json THEN [ok |-> FALSE, obj |-> <<>>]
    ELSE LET ms == text.members
             keys == {ms[i][1] : i \in 1..Len(ms)}
             val(k) == LET i == CHOOSE i \in 1..Len(ms) : ms[i][1] = k
                       IN  IF k \in {"issuedAt", "expiresAt"} THEN ms[i][3] ELSE ms[i][2]
         IN  [ok |-> TRUE, obj |-> [k \in keys |-> val(k)]]

\* base64url text (no padding, no '.') of some bytes
base64url(bytes) == [alphabet |-> "base64url", bytes |-> bytes]

\* a segment with a character outside the base64url alphabet
NotBase64 == [alphabet |-> "other", bytes |-> NotJson]

\* the message authentication code of a payload segment under a key
hmac(key, payloadSegment) == [key |-> key, over |-> payloadSegment]

\* a signature segment: base64url of a MAC, with the bits in flipped inverted
Signature(mac, flipped) == [alphabet |-> "base64url", mac |-> mac, flipped |-> flipped]

sign(payloadSegment) == Signature(hmac(SECRET, payloadSegment), {})

\* encode with the standard base64 alphabet ('+', '/', padding)
encode_base64(grant) ==
    LET payloadSegment == [alphabet |-> "base64", bytes |-> jsonStringify(grant)]
    IN  <<payloadSegment, sign(payloadSegment)>>

\* The token string is its '.'-separated segments: <<payload, signature>>
\* stands for payload + "." + signature.
encode(grant) ==
    LET payloadSegment == base64url(jsonStringify(grant))
    IN  <<payloadSegment, sign(payloadSegment)>>

RequiredKeys == GrantKeys \cup {"expiresAt"}

\* decode(token): the grant, or MalformedTokenError
decode(token) ==
    IF Len(token) # 2 THEN [ok |-> FALSE, error |-> "MalformedTokenError", grant |-> <<>>]
    ELSE IF token[1].alphabet # "base64url"
         THEN [ok |-> FALSE, error |-> "MalformedTokenError", grant |-> <<>>]
    ELSE LET parsed == jsonParse(token[1].bytes)
         IN  IF ~parsed.ok \/ ~(RequiredKeys \subseteq DOMAIN parsed.obj)
             THEN [ok |-> FALSE, error |-> "MalformedTokenError", grant |-> <<>>]
             ELSE [ok |-> TRUE, error |-> "", grant |-> parsed.obj]

\* verifySignature accepting every intact signature made with the secret,
\* whatever payload it was made over
verifySignature_anyPayload(payloadSegment, signatureSegment) ==
    /\ signatureSegment.mac.key = SECRET
    /\ signatureSegment.flipped = {}

\* the expected signature is recomputed over payloadSegment and compared
verifySignature(payloadSegment, signatureSegment) ==
    signatureSegment = sign(payloadSegment)

---------------------------------------------------------------------------
(* Signed URL Service (specification 4.2) *)

\* expiresInMinutes is <<>> when absent, <<n>> when given
NoMinutes == <<>>

UrlPrefix == "/files/secure/"

\* generateSignedUrl taking a zero expiresInMinutes for an absent one
\* (expiresInMinutes || default) and validating nothing else
generateSignedUrl_zeroIsAbsent(p, t) ==
    LET action == IF p.action = Undef THEN "view" ELSE p.action
        minutes == IF p.expiresInMinutes = NoMinutes \/ p.expiresInMinutes = <<0>>
                   THEN DEFAULT_EXPIRY_MINUTES ELSE p.expiresInMinutes[1]
        expiresAt == t + minutes * MsPerMinute
        grant == [tenantId |-> p.tenantId, scope |-> p.scope, ownerId |-> p.ownerId,
                  filename |-> p.filename, action |-> action,
                  issuedAt |-> t, expiresAt |-> expiresAt]
    IN  [url |-> [prefix |-> UrlPrefix, token |-> encode(grant)],
         expiresAt |-> expiresAt]

\* generateSignedUrl(grantInput) at time t: {url, expiresAt}, or InvalidGrantError
generateSignedUrl(p, t) ==
    LET action == IF p.action = Undef THEN "view" ELSE p.action
        minutes == IF p.expiresInMinutes = NoMinutes
                   THEN DEFAULT_EXPIRY_MINUTES ELSE p.expiresInMinutes[1]
        expiresAt == t + minutes * MsPerMinute
        grant == [tenantId |-> p.tenantId, scope |-> p.scope, ownerId |-> p.ownerId,
                  filename |-> p.filename, action |-> action,
                  issuedAt |-> t, expiresAt |-> expiresAt]
    IN  IF Falsy(p.tenantId) \/ Falsy(p.scope) \/ Falsy(p.ownerId) \/ Falsy(p.filename)
           \/ minutes <= 0
        THEN [threw |-> "InvalidGrantError"]
        ELSE [url |-> [prefix |-> UrlPrefix, token |-> encode(grant)],
              expiresAt |-> expiresAt]

\* verifySignedUrl without the expiry check
verifySignedUrl_noExpiry(token, t) ==
    LET d == decode(token)
    IN  IF ~d.ok THEN [valid |-> FALSE]
        ELSE IF ~verifySignature(token[1], token[2]) THEN [valid |-> FALSE]
        ELSE [valid |-> TRUE, tenantId |-> d.grant.tenantId, scope |-> d.grant.scope,
              ownerId |-> d.grant.ownerId, filename |-> d.grant.filename,
              action |-> d.grant.action]

\* verifySignedUrl spreading the decoded payload into a signature failure
verifySignedUrl_leaksFields(token, t) ==
    LET d == decode(token)
    IN  IF ~d.ok THEN [valid |-> FALSE]
        ELSE IF ~verifySignature(token[1], token[2])
        THEN [valid |-> FALSE, tenantId |-> d.grant.tenantId, scope |-> d.grant.scope,
              ownerId |-> d.grant.ownerId, filename |-> d.grant.filename,
              action |-> d.grant.action]
        ELSE IF ~(t <= d.grant.expiresAt) THEN [valid |-> FALSE, expired |-> TRUE]
        ELSE [valid |-> TRUE, tenantId |-> d.grant.tenantId, scope |-> d.grant.scope,
              ownerId |-> d.grant.ownerId, filename |-> d.grant.filename,
              action |-> d.grant.action]

\* verifySignedUrl letting the codec's MalformedTokenError through
verifySignedUrl_throws(token, t) ==
    LET d == decode(token)
    IN  IF ~d.ok THEN [threw |-> d.error]
        ELSE IF ~verifySignature(token[1], token[2]) THEN [valid |-> FALSE]
        ELSE IF ~(t <= d.grant.expiresAt) THEN [valid |-> FALSE, expired |-> TRUE]
        ELSE [valid |-> TRUE, tenantId |-> d.grant.tenantId, scope |-> d.grant.scope,
              ownerId |-> d.grant.ownerId, filename |-> d.grant.filename,
              action |-> d.grant.action]

\* verifySignedUrl looking at expiresAt before the signature
verifySignedUrl_expiryFirst(token, t) ==
    LET d == decode(token)
    IN  IF ~d.ok THEN [valid |-> FALSE]
        ELSE IF ~(t <= d.grant.expiresAt) THEN [valid |-> FALSE, expired |-> TRUE]
        ELSE IF ~verifySignature(token[1], token[2]) THEN [valid |-> FALSE]
        ELSE [valid |-> TRUE, tenantId |-> d.grant.tenantId, scope |-> d.grant.scope,
              ownerId |-> d.grant.ownerId, filename |-> d.grant.filename,
              action |-> d.grant.action]

\* verifySignedUrl(token) at time t
verifySignedUrl(token, t) ==
    LET d == decode(token)
    IN  IF ~d.ok THEN [valid |-> FALSE]
        ELSE IF ~verifySignature(token[1], token[2]) THEN [valid |-> FALSE]
        ELSE IF ~(t <= d.grant.expiresAt) THEN [valid |-> FALSE, expired |-> TRUE]
        ELSE [valid |-> TRUE, tenantId |-> d.grant.tenantId, scope |-> d.grant.scope,
              ownerId |-> d.grant.ownerId, filename |-> d.grant.filename,
              action |-> d.grant.action]

\* getTimeRemaining(expiresAt) at time t, in seconds
getTimeRemaining(expiresAt, t) ==
    IF expiresAt - t <= 0 THEN 0 ELSE (expiresAt - t) \div 1000

---------------------------------------------------------------------------
(* The file store and node:path *)

\* the pieces of a path.join argument between its '/' separators
splitPath(segment) ==
    CASE segment = "../B/tasks"     -> <<"..", "B", "tasks">>
      [] segment = "tasks/o1/x.png" -> <<"tasks", "o1", "x.png">>
      [] OTHER                      -> <<segment>>

\* path.join(process.cwd(), "uploads", ...segments), relative to
\* process.cwd()/uploads: the arguments are cut at their separators, "" and
\* "." are dropped, ".." removes the piece before it, and a ".." that leaves
\* the uploads directory is kept in front.
pathJoin(segments) ==
    LET P[i \in 0..Len(segments)] ==
            IF i = 0 THEN <<>> ELSE P[i - 1] \o splitPath(segments[i])
        pieces == IF \A i \in 1..Len(segments) :
                         splitPath(segments[i]) = <<segments[i]>>
                  THEN segments
                  ELSE P[Len(segments)]
        J[i \in 0..Len(pieces)] ==
            IF i = 0 THEN <<>>
            ELSE LET s == pieces[i]
                     p == J[i - 1]
                 IN  IF s = "" \/ s = "." THEN p
                     ELSE IF s = ".."
                          THEN IF Len(p) > 0 /\ p[Len(p)] # ".."
                               THEN SubSeq(p, 1, Len(p) - 1)
                               ELSE Append(p, "..")
                     ELSE Append(p, s)
    IN  J[Len(pieces)]

\* every file that can be on disk
Paths == {<<t, s, o, f>> : t \in Tenants, s \in Scopes, o \in Owners, f \in Filenames}

\* await fs.access(filePath) resolves
fsAccess(st, filePath) == filePath \in st

---------------------------------------------------------------------------
(* secureFilesRoutes: POST /signed-url *)

\* the reply of a handler that threw: Fastify's error handler answers 500
Threw(r) == "threw" \in DOMAIN r

\* POST /signed-url signing every grant for action "view"
postSignedUrl_viewOnly(user, body, st, t) ==
    LET fileTenantId == OrElse(body.tenantId, user.tenantId)
        filePath == pathJoin(<<String(fileTenantId), body.scope,
                               String(body.ownerId), body.filename>>)
        signedUrlData == generateSignedUrl(
            [tenantId |-> String(fileTenantId), scope |-> body.scope,
             ownerId |-> String(body.ownerId), filename |-> body.filename,
             action |-> "view", expiresInMinutes |-> body.expiresInMinutes], t)
    IN  IF Falsy(body.filename) \/ Falsy(body.scope) \/ Falsy(body.ownerId)
        THEN [status |-> 400]
        ELSE IF String(user.tenantId) # String(fileTenantId)
        THEN [status |-> 403]
        ELSE IF ~fsAccess(st, filePath)
        THEN [status |-> 404]
        ELSE IF Threw(signedUrlData)
        THEN [status |-> 500]
        ELSE [status |-> 200,
              url |-> signedUrlData.url,
              expiresAt |-> signedUrlData.expiresAt,
              expiresIn |-> getTimeRemaining(signedUrlData.expiresAt, t)]

\* POST /signed-url without the tenant check of lines 161-167
postSignedUrl_noTenantCheck(user, body, st, t) ==
    LET action == IF body.action = Undef THEN "view" ELSE body.action
        fileTenantId == OrElse(body.tenantId, user.tenantId)
        filePath == pathJoin(<<String(fileTenantId), body.scope,
                               String(body.ownerId), body.filename>>)
        signedUrlData == generateSignedUrl(
            [tenantId |-> String(fileTenantId), scope |-> body.scope,
             ownerId |-> String(body.ownerId), filename |-> body.filename,
             action |-> action, expiresInMinutes |-> body.expiresInMinutes], t)
    IN  IF Falsy(body.filename) \/ Falsy(body.scope) \/ Falsy(body.ownerId)
        THEN [status |-> 400]
        ELSE IF ~fsAccess(st, filePath)
        THEN [status |-> 404]
        ELSE IF Threw(signedUrlData)
        THEN [status |-> 500]
        ELSE [status |-> 200,
              url |-> signedUrlData.url,
              expiresAt |-> signedUrlData.expiresAt,
              expiresIn |-> getTimeRemaining(signedUrlData.expiresAt, t)]

\* POST /signed-url checking the tenant before the required fields
postSignedUrl_tenantFirst(user, body, st, t) ==
    LET action == IF body.action = Undef THEN "view" ELSE body.action
        fileTenantId == OrElse(body.tenantId, user.tenantId)
        filePath == pathJoin(<<String(fileTenantId), body.scope,
                               String(body.ownerId), body.filename>>)
        signedUrlData == generateSignedUrl(
            [tenantId |-> String(fileTenantId), scope |-> body.scope,
             ownerId |-> String(body.ownerId), filename |-> body.filename,
             action |-> action, expiresInMinutes |-> body.expiresInMinutes], t)
    IN  IF String(user.tenantId) # String(fileTenantId)
        THEN [status |-> 403]
        ELSE IF Falsy(body.filename) \/ Falsy(body.scope) \/ Falsy(body.ownerId)
        THEN [status |-> 400]
        ELSE IF ~fsAccess(st, filePath)
        THEN [status |-> 404]
        ELSE IF Threw(signedUrlData)
        THEN [status |-> 500]
        ELSE [status |-> 200,
              url |-> signedUrlData.url,
              expiresAt |-> signedUrlData.expiresAt,
              expiresIn |-> getTimeRemaining(signedUrlData.expiresAt, t)]

\* POST /signed-url reporting expiresIn in milliseconds
postSignedUrl_expiresInMs(user, body, st, t) ==
    LET action == IF body.action = Undef THEN "view" ELSE body.action
        fileTenantId == OrElse(body.tenantId, user.tenantId)
        filePath == pathJoin(<<String(fileTenantId), body.scope,
                               String(body.ownerId), body.filename>>)
        signedUrlData == generateSignedUrl(
            [tenantId |-> String(fileTenantId), scope |-> body.scope,
             ownerId |-> String(body.ownerId), filename |-> body.filename,
             action |-> action, expiresInMinutes |-> body.expiresInMinutes], t)
    IN  IF Falsy(body.filename) \/ Falsy(body.scope) \/ Falsy(body.ownerId)
        THEN [status |-> 400]
        ELSE IF String(user.tenantId) # String(fileTenantId)
        THEN [status |-> 403]
        ELSE IF ~fsAccess(st, filePath)
        THEN [status |-> 404]
        ELSE IF Threw(signedUrlData)
        THEN [status |-> 500]
        ELSE [status |-> 200,
              url |-> signedUrlData.url,
              expiresAt |-> signedUrlData.expiresAt,
              expiresIn |-> signedUrlData.expiresAt - t]

\* the handler as written: 400, then 403, then 404, then the signed URL
postSignedUrl(user, body, st, t) ==
    LET action == IF body.action = Undef THEN "view" ELSE body.action
        fileTenantId == OrElse(body.tenantId, user.tenantId)
        filePath == pathJoin(<<String(fileTenantId), body.scope,
                               String(body.ownerId), body.filename>>)
        signedUrlData == generateSignedUrl(
            [tenantId |-> String(fileTenantId), scope |-> body.scope,
             ownerId |-> String(body.ownerId), filename |-> body.filename,
             action |-> action, expiresInMinutes |-> body.expiresInMinutes], t)
    IN  IF Falsy(body.filename) \/ Falsy(body.scope) \/ Falsy(body.ownerId)
        THEN [status |-> 400]
        ELSE IF String(user.tenantId) # String(fileTenantId)
        THEN [status |-> 403]
        ELSE IF ~fsAccess(st, filePath)
        THEN [status |-> 404]
        ELSE IF Threw(signedUrlData)
        THEN [status |-> 500]
        ELSE [status |-> 200,
              url |-> signedUrlData.url,
              expiresAt |-> signedUrlData.expiresAt,
              expiresIn |-> getTimeRemaining(signedUrlData.expiresAt, t)]

---------------------------------------------------------------------------
(* secureFilesRoutes: POST /signed-urls/batch *)

batchSignedUrlData(user, body, t) ==
    [i \in 1..Len(body.files) |->
        LET file == body.files[i]
            fileTenantId == OrElse(file.tenantId, user.tenantId)
        IN  generateSignedUrl(
                [tenantId |-> String(fileTenantId), scope |-> file.scope,
                 ownerId |-> String(file.ownerId), filename |-> file.filename,
                 action |-> IF body.action = Undef THEN "view" ELSE body.action,
                 expiresInMinutes |-> body.expiresInMinutes], t)]

\* the batch endpoint without the tenant filter of lines 246-255
postSignedUrlsBatch_noTenantCheck(user, body, t) ==
    LET files == body.files
        signed == batchSignedUrlData(user, body, t)
    IN  IF Len(files) = 0
        THEN [status |-> 400]
        ELSE IF \E i \in 1..Len(files) : Threw(signed[i])
        THEN [status |-> 500]
        ELSE [status |-> 200,
              data |-> [i \in 1..Len(files) |->
                         [filename |-> files[i].filename,
                          url |-> signed[i].url,
                          expiresAt |-> signed[i].expiresAt]]]

\* the handler as written: 400, then 403 for the whole batch, then the URLs
postSignedUrlsBatch(user, body, t) ==
    LET files == body.files
        invalidFiles == {i \in 1..Len(files) :
            String(OrElse(files[i].tenantId, user.tenantId)) # String(user.tenantId)}
        signed == batchSignedUrlData(user, body, t)
    IN  IF Len(files) = 0
        THEN [status |-> 400]
        ELSE IF invalidFiles # {}
        THEN [status |-> 403]
        ELSE IF \E i \in 1..Len(files) : Threw(signed[i])
        THEN [status |-> 500]
        ELSE [status |-> 200,
              data |-> [i \in 1..Len(files) |->
                         [filename |-> files[i].filename,
                          url |-> signed[i].url,
                          expiresAt |-> signed[i].expiresAt]]]

---------------------------------------------------------------------------
(* secureFilesRoutes: GET /secure/* *)

\* GET /secure/* refusing expired tokens only and reading the payload itself
getSecure_skipsValidity(token, st, t) ==
    LET verified == verifySignedUrl(token, t)
        d == decode(token)
    IN  IF IsTrue(verified, "expired") THEN [status |-> 410]
        ELSE IF ~d.ok THEN [status |-> 403]
        ELSE LET filePath == pathJoin(<<d.grant.tenantId, d.grant.scope,
                                        d.grant.ownerId, d.grant.filename>>)
             IN  IF ~fsAccess(st, filePath)
                 THEN [status |-> 404]
                 ELSE [status |-> 200,
                       stream |-> filePath,
                       disposition |-> IF d.grant.action = "download"
                                       THEN "attachment" ELSE "inline"]

\* GET /secure/* answering 403 to an expired token as well
getSecure_expiredAs403(token, st, t) ==
    LET verified == verifySignedUrl(token, t)
    IN  IF Threw(verified) THEN [status |-> 500]
        ELSE IF ~verified.valid THEN [status |-> 403]
        ELSE LET filePath == pathJoin(<<verified.tenantId, verified.scope,
                                        verified.ownerId, verified.filename>>)
             IN  IF ~fsAccess(st, filePath)
                 THEN [status |-> 404]
                 ELSE [status |-> 200,
                       stream |-> filePath,
                       disposition |-> IF verified.action = "download"
                                       THEN "attachment" ELSE "inline"]

\* the handler as written: 410 or 403 from the verdict, then 404, then the stream
getSecure(token, st, t) ==
    LET verified == verifySignedUrl(token, t)
    IN  IF Threw(verified) THEN [status |-> 500]
        ELSE IF ~verified.valid
        THEN IF IsTrue(verified, "expired")
             THEN [status |-> 410]
             ELSE [status |-> 403]
        ELSE LET filePath == pathJoin(<<verified.tenantId, verified.scope,
                                        verified.ownerId, verified.filename>>)
             IN  IF ~fsAccess(st, filePath)
                 THEN [status |-> 404]
                 ELSE [status |-> 200,
                       stream |-> filePath,
                       disposition |-> IF verified.action = "download"
                                       THEN "attachment" ELSE "inline"]

---------------------------------------------------------------------------
(* uploadsRoutes: GET /:tenantId/:scope/:ownerId/:filename *)

\* decodeURIComponent on the path segments a request can carry: an escape
\* %XX becomes its character, a '%' that starts no escape throws URIError,
\* and a segment without '%' (every other one here) is returned as it is
decodeURIComponent(s) ==
    CASE s = "x.png"    -> [value |-> "x.png"]
      [] s = "x%2Epng"  -> [value |-> "x.png"]
      [] s = "100%.png" -> [threw |-> "URIError"]
      [] s = "a.png"    -> [value |-> "a.png"]
      [] s = "report%20final.pdf" -> [value |-> "report final.pdf"]
      [] s = "%CE%B1.png" -> [value |-> "α.png"]
      [] s = ""         -> [value |-> ""]
      [] s = "tasks%2Fo1%2Fx.png" -> [value |-> "tasks/o1/x.png"]
      [] OTHER          -> [value |-> s]

\* the users collection: User.findById(userId).lean()
findById(userId) ==
    CASE userId = "uA"     -> [doc |-> [tenantId |-> "A"]]
      [] userId = "uB"     -> [doc |-> [tenantId |-> "B"]]
      [] userId = "u0"     -> [doc |-> [tenantId |-> Undef]]
      [] userId = "not-an-id" -> [threw |-> "CastError"]

\* request.user unset; no ?token= in the query
NoUser == [present |-> FALSE, tenantId |-> Undef]
NoToken == [present |-> FALSE, verifies |-> FALSE, tenantId |-> Undef, userId |-> Undef]

\* the user the token query parameter establishes (lines 780-809):
\* result "denied" is the 403 of line 797, "none" leaves user unset
userFromToken(token, params) ==
    IF ~token.present THEN [result |-> "none", user |-> NoUser]
    ELSE IF ~token.verifies THEN [result |-> "none", user |-> NoUser]
    ELSE LET lookup == IF Falsy(token.tenantId) /\ ~Falsy(token.userId)
                       THEN findById(token.userId)
                       ELSE [doc |-> [tenantId |-> token.tenantId]]
         IN  IF Threw(lookup) THEN [result |-> "none", user |-> NoUser]
             ELSE LET user == [present |-> TRUE, tenantId |-> lookup.doc.tenantId]
                  IN  IF String(user.tenantId) # String(params.tenantId)
                      THEN [result |-> "denied", user |-> user]
                      ELSE [result |-> "user", user |-> user]

\* the legacy endpoint refusing whoever establishes no user (fail-closed)
getUpload_failClosed(requestUser, token, params, st) ==
    LET fromToken == IF requestUser.present
                     THEN [result |-> "user", user |-> requestUser]
                     ELSE userFromToken(token, params)
        user == fromToken.user
        decodedFilename == decodeURIComponent(params.filename)
    IN  IF fromToken.result = "denied" THEN [status |-> 403]
        ELSE IF ~user.present \/ String(user.tenantId) # String(params.tenantId)
        THEN [status |-> 403]
        ELSE IF Threw(decodedFilename) THEN [status |-> 500]
        ELSE LET filePath == pathJoin(<<params.tenantId, params.scope,
                                        params.ownerId, decodedFilename.value>>)
             IN  IF ~fsAccess(st, filePath)
                 THEN [status |-> 404]
                 ELSE [status |-> 200, stream |-> filePath]

\* the handler as written: the token's 403, the 403 of an established user,
\* then the path alone
getUpload(requestUser, token, params, st) ==
    LET fromToken == IF requestUser.present
                     THEN [result |-> "user", user |-> requestUser]
                     ELSE userFromToken(token, params)
        user == fromToken.user
        decodedFilename == decodeURIComponent(params.filename)
    IN  IF fromToken.result = "denied" THEN [status |-> 403]
        ELSE IF user.present /\ String(user.tenantId) # String(params.tenantId)
        THEN [status |-> 403]
        ELSE IF Threw(decodedFilename) THEN [status |-> 500]
        ELSE LET filePath == pathJoin(<<params.tenantId, params.scope,
                                        params.ownerId, decodedFilename.value>>)
             IN  IF ~fsAccess(st, filePath)
                 THEN [status |-> 404]
                 ELSE [status |-> 200, stream |-> filePath]

---------------------------------------------------------------------------
(* uploadsRoutes: POST / *)

\* the directory of a scope form field (lines 581-590)
scopeDir(scope) ==
    CASE scope = "workOrder" -> "work_orders"
      [] scope = "report"    -> "reports"
      [] scope = "logo"      -> "branding"
      [] scope = "subtasks"  -> "subtasks"
      [] OTHER               -> "tasks"

\* file.filename.replace(/[<>:"/\\|?*]/g, '_').replace(/\s+/g, '_')
sanitize(originalName) ==
    CASE originalName = "my file.png" -> "my_file.png"
      [] originalName = "a/b.png"     -> "a_b.png"
      [] OTHER                        -> originalName

\* `${Date.now()}-${sanitizedOriginalName}`
storedName(t, originalName) == ToString(t) \o "-" \o sanitize(originalName)

\* protocol and host of the request, in front of the relative signed URL
Origin == "https://files.example"

UPLOAD_EXPIRY_MINUTES == 24 * 60

\* Tenant.findById and EnvSubscriptionService.canPerformAction, as the
\* handler sees them
TenantStates == {"missing", "over limit", "allowed"}

\* the upload handler for a form without logo scope: 400, 404, 413, then
\* each file is written and a signed URL for it is generated; a rejected
\* trackFileUpload is logged and changes nothing.  saved[i] is the entry of
\* files[i], store the disk afterwards.
postUpload(user, form, files, tenantState, st, t) ==
    LET tenantId == user.tenantId
        dir == scopeDir(form.scope)
        ownerId == OrElse(form.taskId, OrElse(form.workOrderId, "misc"))
        W[i \in 0..Len(files)] ==
            IF i = 0 THEN [store |-> st, saved |-> <<>>, threw |-> FALSE]
            ELSE LET before == W[i - 1]
                     filename == storedName(t, files[i])
                     destPath == pathJoin(<<String(tenantId), dir, String(ownerId),
                                            filename>>)
                     signedUrlData == generateSignedUrl(
                         [tenantId |-> String(tenantId), scope |-> dir,
                          ownerId |-> String(ownerId), filename |-> filename,
                          action |-> "view",
                          expiresInMinutes |-> <<UPLOAD_EXPIRY_MINUTES>>], t)
                 IN  IF before.threw THEN before
                     ELSE IF Threw(signedUrlData)
                     THEN [store |-> before.store \cup {destPath},
                           saved |-> before.saved, threw |-> TRUE]
                     ELSE [store |-> before.store \cup {destPath},
                           saved |-> Append(before.saved,
                               [url |-> [origin |-> Origin,
                                         prefix |-> signedUrlData.url.prefix,
                                         token |-> signedUrlData.url.token],
                                expiresAt |-> signedUrlData.expiresAt,
                                name |-> files[i], filename |-> filename,
                                scope |-> dir, ownerId |-> String(ownerId)]),
                           threw |-> FALSE]
        written == W[Len(files)]
    IN  IF Len(files) = 0 THEN [status |-> 400, store |-> st]
        ELSE IF tenantState = "missing" THEN [status |-> 404, store |-> st]
        ELSE IF tenantState = "over limit" THEN [status |-> 413, store |-> st]
        ELSE IF written.threw THEN [status |-> 500, store |-> written.store]
        ELSE [status |-> 200, store |-> written.store, data |-> written.saved]

---------------------------------------------------------------------------
(* uploadsRoutes: DELETE /:tenantId/:scope/:ownerId/:filename *)

\* what FileTrackingService.trackFileDeletion can do: resolve with
\* tracked true, resolve with tracked false, or reject
TrackingOutcomes == {"tracked", "untracked", "throws"}

\* the handler with fs.unlink moved in front of the tracking call
deleteUpload_unlinkFirst(user, params, st, tracking) ==
    LET decodedFilename == decodeURIComponent(params.filename)
    IN  IF String(user.tenantId) # String(params.tenantId)
        THEN [status |-> 403, store |-> st, calls |-> <<>>]
        ELSE IF Threw(decodedFilename)
        THEN [status |-> 500, store |-> st, calls |-> <<>>]
        ELSE LET filePath == pathJoin(<<params.tenantId, params.scope,
                                        params.ownerId, decodedFilename.value>>)
             IN  IF ~fsAccess(st, filePath)
                 THEN [status |-> 404, store |-> st, calls |-> <<"access">>]
                 ELSE IF tracking = "throws"
                 THEN [status |-> 500, store |-> st \ {filePath},
                       calls |-> <<"access", "unlink", "trackFileDeletion">>]
                 ELSE [status |-> 200, store |-> st \ {filePath},
                       calls |-> <<"access", "unlink", "trackFileDeletion">>,
                       filename |-> decodedFilename.value]

\* the handler as written: 403, then the decoding (outside every try), then
\* fs.access, trackFileDeletion, fs.unlink; store is the disk afterwards and
\* calls the awaited calls in their order
deleteUpload(user, params, st, tracking) ==
    LET decodedFilename == decodeURIComponent(params.filename)
    IN  IF String(user.tenantId) # String(params.tenantId)
        THEN [status |-> 403, store |-> st, calls |-> <<>>]
        ELSE IF Threw(decodedFilename)
        THEN [status |-> 500, store |-> st, calls |-> <<>>]
        ELSE LET filePath == pathJoin(<<params.tenantId, params.scope,
                                        params.ownerId, decodedFilename.value>>)
             IN  IF ~fsAccess(st, filePath)
                 THEN [status |-> 404, store |-> st, calls |-> <<"access">>]
                 ELSE IF tracking = "throws"
                 THEN [status |-> 500, store |-> st,
                       calls |-> <<"access", "trackFileDeletion">>]
                 ELSE [status |-> 200, store |-> st \ {filePath},
                       calls |-> <<"access", "trackFileDeletion", "unlink">>,
                       filename |-> decodedFilename.value]

---------------------------------------------------------------------------
(* Requests *)

Users == [tenantId : Tenants]

CompleteBodies ==
    [tenantId : {Undef} \cup Tenants, scope : Scopes, ownerId : Owners,
     filename : Filenames, action : {Undef, "download"},
     expiresInMinutes : {NoMinutes, <<-1>>, <<0>>, <<1>>}]

\* a request body of POST /signed-url: complete, or lacking one required field
SingleBodies ==
    CompleteBodies
    \cup {[b EXCEPT ![k] = Undef] : b \in CompleteBodies,
                                    k \in {"filename", "scope", "ownerId"}}

BatchFiles ==
    [tenantId : {Undef} \cup Tenants, scope : Scopes, ownerId : Owners,
     filename : Filenames]
    \cup [tenantId : {Undef}, scope : Scopes, ownerId : Owners, filename : {Undef}]

SeqUpTo(S, n) == UNION {[1..k -> S] : k \in 0..n}

BatchBodies ==
    [files : SeqUpTo(BatchFiles, MaxBatch), action : {Undef},
     expiresInMinutes : {<<1>>}]
    \cup [files : SeqUpTo(BatchFiles, 1), action : {Undef},
          expiresInMinutes : {<<0>>}]

\* the ?token= of a legacy request: none, one jwt.verify rejects, or a
\* verified one carrying a tenantId or else a userId (or neither)
QueryTokens ==
    {NoToken}
    \cup [present : {TRUE}, verifies : {FALSE}, tenantId : {Undef}, userId : {Undef}]
    \cup [present : {TRUE}, verifies : {TRUE}, tenantId : Tenants, userId : {"uB"}]
    \cup [present : {TRUE}, verifies : {TRUE}, tenantId : {Undef},
          userId : {Undef, "uB", "u0", "not-an-id"}]

\* who asks: request.user set (the token is then not looked at), or not
Callers ==
    [user : [present : {TRUE}, tenantId : Tenants],
     token : {NoToken, [present |-> TRUE, verifies |-> TRUE,
                        tenantId |-> "B", userId |-> "uB"]}]
    \cup [user : {NoUser}, token : QueryTokens]

UploadParams ==
    [tenantId : Tenants, scope : Scopes, ownerId : Owners,
     filename : {"x.png", "x%2Epng", "100%.png"}]

\* the form fields of an upload: a task's attachment, or a work order's
\* with no owner given
UploadForms ==
    {[scope |-> "task", taskId |-> "o1", workOrderId |-> ""],
     [scope |-> "workOrder", taskId |-> "", workOrderId |-> ""]}

\* the original names of the file parts
UploadNames == {"my file.png"}

\* the path parameters that name a file on disk
ParamsOf(st) ==
    {[tenantId |-> p[1], scope |-> p[2], ownerId |-> p[3], filename |-> p[4]]
     : p \in {q \in st : Len(q) = 4}}

---------------------------------------------------------------------------
(* Tokens a client can present *)

\* the tokens inside the URLs the client holds
Genuine(h) == {u.url.token : u \in h}

\* a signature segment with bit i inverted
FlipBit(signatureSegment, i) ==
    [signatureSegment EXCEPT !.flipped =
        IF i \in @ THEN @ \ {i} ELSE @ \cup {i}]

PastTime == 0 - 1
FarFuture == (MaxMinutes + DEFAULT_EXPIRY_MINUTES + 1) * MsPerMinute

\* the payload of a token with one field replaced
AlteredPayloads(token) ==
    LET g == decode(token).grant
        grants ==
            {[g EXCEPT !.tenantId = t] : t \in Tenants \ {g.tenantId}}
            \cup {[g EXCEPT !.filename = "other.png"]}
            \cup {[g EXCEPT !.action = a] : a \in Actions \ {g.action}}
            \cup {[g EXCEPT !.expiresAt = FarFuture]}
    IN  {base64url(jsonStringify(x)) : x \in grants}

\* payloads written by the presenter
ForgedGrants ==
    [tenantId : Tenants, scope : Scopes, ownerId : Owners, filename : Filenames,
     action : {"view"}, issuedAt : {0}, expiresAt : {PastTime, FarFuture}]

\* JSON objects lacking a required field
PartialObjects ==
    {[tenantId |-> "A", scope |-> "tasks", ownerId |-> "o1", action |-> "view",
      issuedAt |-> 0, expiresAt |-> FarFuture],
     [tenantId |-> "A", scope |-> "tasks", ownerId |-> "o1", filename |-> "x.png",
      action |-> "view", issuedAt |-> 0]}

selfSigned(payloadSegment) ==
    <<payloadSegment, Signature(hmac(OtherKey, payloadSegment), {})>>

Malformed(h) ==
    LET p == base64url(jsonStringify(
                 [tenantId |-> "A", scope |-> "tasks", ownerId |-> "o1",
                  filename |-> "x.png", action |-> "view", issuedAt |-> 0,
                  expiresAt |-> FarFuture]))
    IN  {<<p>>, <<NotBase64>>, selfSigned(p) \o <<p>>,
         selfSigned(NotBase64), selfSigned(base64url(NotJson))}
        \cup {selfSigned(base64url(jsonStringify(o))) : o \in PartialObjects}
        \cup {t \o <<t[2]>> : t \in Genuine(h)}
        \cup {<<NotBase64, t[2]>> : t \in Genuine(h)}

SignatureFlipped(h) ==
    {<<t[1], FlipBit(t[2], i)>> : t \in Genuine(h), i \in 1..SigBits}

PayloadSwapped(h) ==
    UNION {{<<p, t[2]>> : p \in AlteredPayloads(t)} : t \in Genuine(h)}

SelfSigned == {selfSigned(base64url(jsonStringify(g))) : g \in ForgedGrants}

Presentable(h) ==
    Genuine(h) \cup SignatureFlipped(h) \cup PayloadSwapped(h)
    \cup SelfSigned \cup Malformed(h)

---------------------------------------------------------------------------
(* Strings of the browser side (file-url-converter.ts)

   A URL string is the sequence of its symbols.  A symbol is a delimiter
   character ('/', '?', '&', '=', or the '.' between the two segments of a
   token), a maximal run of other characters (a chunk, which holds none of
   '/', '?', '&', '='), the payload segment of a token, or its signature
   segment.  A chunk is never the base64 text of a JSON document: those are
   payload symbols.  A path segment is one chunk, or empty. *)

NoPayload == [alphabet |-> "none", bytes |-> NotJson]
NoSig == Signature(hmac("", NoPayload), {})

Ch(c) == [c |-> c, p |-> NoPayload, g |-> NoSig]
PayloadSym(payloadSegment) == [c |-> "", p |-> payloadSegment, g |-> NoSig]
SigSym(signatureSegment) == [c |-> "", p |-> NoPayload, g |-> signatureSegment]

\* a url argument that is undefined; '' is the empty sequence
NoUrl == <<Ch(Undef)>>

\* 'a/b?c=d' as symbols, from its chunks and delimiters
Str(chunks) == [i \in 1..Len(chunks) |-> Ch(chunks[i])]

\* s.includes(pattern)
includes(s, pattern) ==
    \E i \in 1..(Len(s) - Len(pattern) + 1) :
        SubSeq(s, i, i + Len(pattern) - 1) = pattern

\* s.split(d), d one character
RECURSIVE split(_, _)
split(s, d) ==
    IF \A i \in 1..Len(s) : s[i] # d
    THEN <<s>>
    ELSE LET i == CHOOSE i \in 1..Len(s) : s[i] = d /\ \A j \in 1..(i - 1) : s[j] # d
         IN  <<SubSeq(s, 1, i - 1)>> \o split(SubSeq(s, i + 1, Len(s)), d)

\* parts.indexOf(x): zero-based, -1 when absent
indexOf(parts, x) ==
    IF \A i \in 1..Len(parts) : parts[i] # x
    THEN 0 - 1
    ELSE (CHOOSE i \in 1..Len(parts) :
              parts[i] = x /\ \A j \in 1..(i - 1) : parts[j] # x) - 1

\* parts[i], zero-based
At(parts, i) == parts[i + 1]

\* parts.slice(from)
slice(parts, from) == SubSeq(parts, from + 1, Len(parts))

\* parts.join(d)
RECURSIVE join(_, _)
join(parts, d) ==
    IF Len(parts) = 0 THEN <<>>
    ELSE IF Len(parts) = 1 THEN parts[1]
    ELSE parts[1] \o <<d>> \o join(Tail(parts), d)

\* the JavaScript string of a path segment
text(part) == IF part = <<>> THEN "" ELSE part[1].c

\* the characters atob gives for the UTF-8 bytes of a string: one character
\* per byte, so only ASCII text comes back as it was
latin1(s) ==
    CASE s = "α.png" -> "Î±.png"
      [] OTHER -> s

\* the binary string of the bytes of a JSON text
binaryString(bytes) ==
    IF ~bytes.json THEN bytes
    ELSE [json |-> TRUE,
          members |-> [i \in 1..Len(bytes.members) |->
                         <<bytes.members[i][1], latin1(bytes.members[i][2]),
                           bytes.members[i][3]>>]]

\* chunks that happen to be base64 text (of bytes that are no JSON)
Base64Chunks == {"abcd"}

\* atob(payloadBase64.replace(/-/g, '+').replace(/_/g, '/'))
atob(payloadBase64) ==
    IF Len(payloadBase64) = 1 /\ payloadBase64[1].p.alphabet = "base64url"
    THEN [value |-> binaryString(payloadBase64[1].p.bytes)]
    ELSE IF Len(payloadBase64) = 1 /\ payloadBase64[1].c \in Base64Chunks
    THEN [value |-> NotJson]
    ELSE [threw |-> "InvalidCharacterError"]

\* the string of a URL the service returns, and of a token
TokenString(token) == <<PayloadSym(token[1]), Ch("."), SigSym(token[2])>>
UrlString(url) ==
    (IF url.prefix = UrlPrefix THEN Str(<<"/", "files", "/", "secure", "/">>)
     ELSE Str(<<url.prefix>>))
    \o TokenString(url.token)

---------------------------------------------------------------------------
(* Legacy URL migration helper (file-url-converter.ts) *)

\* isOldTokenUrl looking for '?token=' only
isOldTokenUrl_questionOnly(url) ==
    IF url = NoUrl \/ url = <<>> THEN FALSE
    ELSE includes(url, Str(<<"?", "token", "=">>))

\* lines 10-13
isOldTokenUrl(url) ==
    IF url = NoUrl \/ url = <<>> THEN FALSE
    ELSE \/ includes(url, Str(<<"?", "token", "=">>))
         \/ includes(url, Str(<<"&", "token", "=">>))

\* the null of extractFileMetadataFromUrl
Null == [null |-> TRUE]

\* lines 40-57: the payload of the token of a signed URL
metadataFromToken(token) ==
    LET payloadBase64 == split(token, Ch("."))[1]
        payloadJson == atob(payloadBase64)
        parsed == jsonParse(payloadJson.value)
    IN  IF payloadBase64 = <<>> THEN [fallthrough |-> TRUE]
        ELSE IF Threw(payloadJson) THEN Null
        ELSE IF ~parsed.ok THEN Null
        ELSE [filename |-> Get(parsed.obj, "filename"),
              scope |-> Get(parsed.obj, "scope"),
              ownerId |-> Get(parsed.obj, "ownerId"),
              tenantId |-> Get(parsed.obj, "tenantId")]

\* the uploads branch taking the filename segment as it stands
metadataFromPath_raw(urlWithoutQuery) ==
    LET pathParts == split(urlWithoutQuery, Ch("/"))
        uploadsIndex == indexOf(pathParts, Str(<<"uploads">>))
    IN  IF uploadsIndex = 0 - 1 \/ Len(pathParts) < uploadsIndex + 5 THEN Null
        ELSE [filename |-> text(At(pathParts, uploadsIndex + 4)),
              scope |-> text(At(pathParts, uploadsIndex + 2)),
              ownerId |-> text(At(pathParts, uploadsIndex + 3)),
              tenantId |-> text(At(pathParts, uploadsIndex + 1))]

\* the uploads branch outside any try: the URIError leaves the function
metadataFromPath_throws(urlWithoutQuery) ==
    LET pathParts == split(urlWithoutQuery, Ch("/"))
        uploadsIndex == indexOf(pathParts, Str(<<"uploads">>))
        filename == decodeURIComponent(text(At(pathParts, uploadsIndex + 4)))
    IN  IF uploadsIndex = 0 - 1 \/ Len(pathParts) < uploadsIndex + 5 THEN Null
        ELSE IF Threw(filename) THEN filename
        ELSE [filename |-> filename.value,
              scope |-> text(At(pathParts, uploadsIndex + 2)),
              ownerId |-> text(At(pathParts, uploadsIndex + 3)),
              tenantId |-> text(At(pathParts, uploadsIndex + 1))]

\* lines 61-79: the path segments after 'uploads'
metadataFromPath(urlWithoutQuery) ==
    LET pathParts == split(urlWithoutQuery, Ch("/"))
        uploadsIndex == indexOf(pathParts, Str(<<"uploads">>))
        filename == decodeURIComponent(text(At(pathParts, uploadsIndex + 4)))
    IN  IF uploadsIndex = 0 - 1 \/ Len(pathParts) < uploadsIndex + 5 THEN Null
        ELSE IF Threw(filename) THEN Null
        ELSE [filename |-> filename.value,
              scope |-> text(At(pathParts, uploadsIndex + 2)),
              ownerId |-> text(At(pathParts, uploadsIndex + 3)),
              tenantId |-> text(At(pathParts, uploadsIndex + 1))]

\* url.split of an undefined url throws inside the try of line 27: null
extractFileMetadataFromUrl(url) ==
    IF url = NoUrl THEN Null
    ELSE LET urlWithoutQuery == split(url, Ch("?"))[1]
             pathParts == split(urlWithoutQuery, Ch("/"))
             secureIndex == indexOf(pathParts, Str(<<"secure">>))
             token == join(slice(pathParts, secureIndex + 1), Ch("/"))
             fromToken ==
                 IF includes(urlWithoutQuery, Str(<<"/", "files", "/", "secure", "/">>))
                    /\ secureIndex # 0 - 1 /\ Len(pathParts) > secureIndex + 1
                 THEN metadataFromToken(token)
                 ELSE [fallthrough |-> TRUE]
         IN  IF "fallthrough" \in DOMAIN fromToken
             THEN metadataFromPath(urlWithoutQuery)
             ELSE fromToken

\* CONFIG.serverUrl
ServerUrl == Str(<<"https:", "/", "/", "api.example.com">>)

\* signedUrl.startsWith('http')
startsWithHttp(s) == Len(s) > 0 /\ s[1].c \in {"http:", "https:"}

\* what a call of generateSignedUrlOnce can come to: the relative URL of the
\* service, an absolute one, a rejection, or a response without the URL
Issuances == {"relative", "absolute", "rejects", "undefined"}

\* generateSignedUrlOnce(metadata, options) with options undefined: the
\* issuance operation for the extracted fields and a view action
generateSignedUrlOnce(metadata, issuance, t) ==
    LET signedUrlData == generateSignedUrl(
            [tenantId |-> metadata.tenantId, scope |-> metadata.scope,
             ownerId |-> metadata.ownerId, filename |-> metadata.filename,
             action |-> "view", expiresInMinutes |-> NoMinutes], t)
    IN  IF issuance = "rejects" \/ Threw(signedUrlData) THEN [threw |-> "Error"]
        ELSE IF issuance = "undefined" THEN [value |-> NoUrl]
        ELSE IF issuance = "absolute"
        THEN [value |-> Str(<<"https:", "/", "/", "files.example.com">>)
                        \o UrlString(signedUrlData.url)]
        ELSE [value |-> UrlString(signedUrlData.url)]

\* the body of the try keeping the query string of the original URL
convertTry_keepsQuery(url, issuance, t) ==
    LET metadata == extractFileMetadataFromUrl(url)
        signedUrl == generateSignedUrlOnce(metadata, issuance, t)
        query == SubSeq(url, Len(split(url, Ch("?"))[1]) + 1, Len(url))
    IN  IF metadata = Null THEN [value |-> url, requests |-> 0]
        ELSE IF Threw(signedUrl) THEN [threw |-> signedUrl.threw, requests |-> 1]
        ELSE IF signedUrl.value = NoUrl THEN [threw |-> "TypeError", requests |-> 1]
        ELSE IF startsWithHttp(signedUrl.value)
        THEN [value |-> signedUrl.value \o query, requests |-> 1]
        ELSE [value |-> ServerUrl \o signedUrl.value \o query, requests |-> 1]

\* lines 101-118, the body of the try: the URL, or what it throws, and the
\* number of issuance requests made
convertTry(url, issuance, t) ==
    LET metadata == extractFileMetadataFromUrl(url)
        signedUrl == generateSignedUrlOnce(metadata, issuance, t)
    IN  IF metadata = Null THEN [value |-> url, requests |-> 0]
        ELSE IF Threw(signedUrl) THEN [threw |-> signedUrl.threw, requests |-> 1]
        ELSE IF signedUrl.value = NoUrl THEN [threw |-> "TypeError", requests |-> 1]
        ELSE IF startsWithHttp(signedUrl.value)
        THEN [value |-> signedUrl.value, requests |-> 1]
        ELSE [value |-> ServerUrl \o signedUrl.value, requests |-> 1]

\* convertToSignedUrl without the early return of lines 96-99
convertToSignedUrl_alwaysConverts(url, issuance, t) ==
    IF url = NoUrl \/ url = <<>> THEN [value |-> <<>>, requests |-> 0]
    ELSE LET tried == convertTry(url, issuance, t)
         IN  IF Threw(tried) THEN [value |-> url, requests |-> tried.requests]
             ELSE tried

\* convertToSignedUrl without the catch of lines 119-122
convertToSignedUrl_noCatch(url, issuance, t) ==
    IF url = NoUrl \/ url = <<>> THEN [value |-> <<>>, requests |-> 0]
    ELSE IF ~isOldTokenUrl(url) THEN [value |-> url, requests |-> 0]
    ELSE convertTry(url, issuance, t)

\* convertToSignedUrl(url) when the issuance call it may make comes to
\* issuance: what the promise settles to, and the issuance requests made
convertToSignedUrl(url, issuance, t) ==
    IF url = NoUrl \/ url = <<>> THEN [value |-> <<>>, requests |-> 0]
    ELSE IF ~isOldTokenUrl(url) THEN [value |-> url, requests |-> 0]
    ELSE LET tried == convertTry(url, issuance, t)
         IN  IF Threw(tried) THEN [value |-> url, requests |-> tried.requests]
             ELSE tried

---------------------------------------------------------------------------
(* URLs the browser side is given *)

ClientFilenames == {"a.png", "α.png"}

\* the grants the client asks the service to sign
SignableInputs ==
    [tenantId : {"A"}, scope : Scopes, ownerId : Owners, filename : ClientFilenames,
     action : {Undef, "download"}, expiresInMinutes : {NoMinutes}]

\* the signed URLs of the service, relative and with the server's address
SignedUrls(t) ==
    LET relative == {UrlString(generateSignedUrl(p, t).url) : p \in SignableInputs}
    IN  relative \cup {ServerUrl \o Str(<<"/", "api", "/", "v1">>) \o u : u \in relative}

LegacyPath(tenantId, scope, ownerId, filename) ==
    Str(<<"/", "uploads", "/", tenantId, "/", scope, "/", ownerId, "/", filename>>)

Bases ==
    {<<>>, Str(<<"/", "api", "/", "v1">>),
     Str(<<"https:", "/", "/", "api.example.com", "/", "api", "/", "v1">>)}

EncodedFilenames == {"x.png", "report%20final.pdf", "%CE%B1.png", "100%.png"}

TokenQueries ==
    {Str(<<"?", "token", "=", "xyz">>),
     Str(<<"?", "v", "=", "1", "&", "token", "=", "xyz">>),
     Str(<<"?", "token", "=", "a", "/", "b">>)}

Queries == {<<>>, Str(<<"?", "v", "=", "1">>)} \cup TokenQueries

\* tenantId segments, one of them with a percent escape
PathTenants == {"A", "t%201"}

\* .../uploads/{tenantId}/{scope}/{ownerId}/{filename}
UploadUrls ==
    {b \o LegacyPath(t, s, o, f) : b \in Bases, t \in PathTenants, s \in Scopes,
                                   o \in Owners, f \in EncodedFilenames}

\* paths of neither shape
OtherPaths ==
    {Str(<<"/", "other", "/", "x.png">>),
     Str(<<"/", "uploads", "/", "A", "/", "tasks">>),
     Str(<<"/", "uploads", "/", "A", "/", "tasks", "/", "o1">>),
     Str(<<"/", "secure", "/", "x.png">>),
     Str(<<"/", "files", "/", "token", "=", "xyz">>)}

\* /files/secure/ followed by something that is no token of the service
BrokenSecureUrls ==
    {Str(<<"/", "files", "/", "secure", "/">>) \o rest :
        rest \in {<<>>, Str(<<"abcd">>), Str(<<"!!">>),
                  Str(<<"abcd", ".", "sig">>),
                  <<PayloadSym(NotBase64), Ch("."), Ch("sig")>>,
                  <<PayloadSym(base64url(NotJson)), Ch("."), Ch("sig")>>}}

\* a signed URL whose signature segment was altered
Resigned(url) ==
    [i \in 1..Len(url) |->
        IF url[i].g = NoSig THEN url[i] ELSE SigSym(FlipBit(url[i].g, 1))]

\* a /files/secure/ URL whose payload is JSON without filename, with and
\* without a token query, and legacy URLs with an empty scope segment
IncompleteUrls ==
    LET payload == PayloadSym(base64url(jsonStringify(
            [tenantId |-> "A", scope |-> "tasks", ownerId |-> "o1",
             action |-> "view", issuedAt |-> 0, expiresAt |-> FarFuture])))
        secure == Str(<<"/", "files", "/", "secure", "/">>)
                  \o <<payload, Ch("."), Ch("sig")>>
        path == Str(<<"/", "uploads", "/", "A", "/", "/", "o1", "/", "x.png">>)
    IN  {u \o q : u \in {secure, path},
                  q \in {<<>>, Str(<<"?", "token", "=", "xyz">>)}}

ClientUrls(t) ==
    {<<>>, NoUrl}
    \cup IncompleteUrls
    \cup {u \o q : u \in UploadUrls \cup OtherPaths \cup BrokenSecureUrls, q \in Queries}
    \cup {u \o q : u \in SignedUrls(t), q \in {<<>>, Str(<<"?", "token", "=", "xyz">>)}}
    \cup {Resigned(u) : u \in SignedUrls(t)}

---------------------------------------------------------------------------
(* The state machine *)

ClockLimit == MaxMinutes * MsPerMinute + 1

\* the clock is observed 1 ms before, at, and 1 ms after each full minute
ClockStep(t) == IF t % MsPerMinute = 1 THEN MsPerMinute - 2 ELSE 1

Nothing == [op |-> "none"]

\* the migration helper has not been called
NoCall == [op |-> "none"]

\* the server is between two requests
Idle == last = Nothing

Init ==
    /\ now = 0
    /\ store \in SUBSET Paths
    /\ held = {}
    /\ last = Nothing
    /\ client = NoCall

Tick ==
    /\ Idle
    /\ now + ClockStep(now) <= ClockLimit
    /\ now' = now + ClockStep(now)
    /\ UNCHANGED <<store, held, last, client>>

\* what the client keeps of an issuance: the URL, and the grant it asked for
Issued(user, file, action, url, expiresAt) ==
    [url |-> url, expiresAt |-> expiresAt, issuedAt |-> now, to |-> user.tenantId,
     grant |-> [tenantId |-> file.tenantId, scope |-> file.scope,
                ownerId |-> file.ownerId, filename |-> file.filename,
                action |-> action]]

\* a request to POST /signed-url with one of the given bodies
PostSignedUrlWith(bodies) ==
    /\ Idle
    /\ \E user \in Users, body \in bodies :
        LET r == postSignedUrl(user, body, store, now)
        IN  /\ held' = IF r.status = 200
                       THEN {Issued(user, body, body.action, r.url, r.expiresAt)}
                       ELSE held
            /\ last' = [op |-> "POST /signed-url", user |-> user, body |-> body,
                        reply |-> r]
    /\ UNCHANGED <<now, store, client>>

PostSignedUrl == PostSignedUrlWith(SingleBodies)

PostSignedUrlsBatch ==
    /\ Idle
    /\ \E user \in Users, body \in BatchBodies :
        LET r == postSignedUrlsBatch(user, body, now)
        IN  /\ held' = IF r.status = 200
                       THEN {Issued(user, body.files[i], body.action,
                                    r.data[i].url, r.data[i].expiresAt)
                             : i \in 1..Len(body.files)}
                       ELSE held
            /\ last' = [op |-> "POST /signed-urls/batch", user |-> user,
                        body |-> body, reply |-> r]
    /\ UNCHANGED <<now, store, client>>

\* GET /secure/* removing the file it has streamed
GetSecure_unlinks ==
    /\ Idle
    /\ \E token \in Presentable(held), presenter \in Tenants :
        LET r == getSecure(token, store, now)
        IN  /\ last' = [op |-> "GET /secure", token |-> token,
                        presenter |-> presenter,
                        verified |-> verifySignedUrl(token, now), reply |-> r]
            /\ store' = IF r.status = 200 THEN store \ {r.stream} ELSE store
    /\ UNCHANGED <<now, held, client>>

\* The route has no preHandler: whoever presents the token, and whatever tenant
\* they are authenticated as elsewhere, is not an input of the handler.
GetSecure ==
    /\ Idle
    /\ \E token \in Presentable(held), presenter \in Tenants :
        last' = [op |-> "GET /secure", token |-> token, presenter |-> presenter,
                 verified |-> verifySignedUrl(token, now),
                 reply |-> getSecure(token, store, now)]
    /\ UNCHANGED <<now, store, held, client>>

\* a request to the legacy endpoint with one of the given paths
GetUploadWith(paths) ==
    /\ Idle
    /\ \E caller \in Callers, params \in paths :
        last' = [op |-> "GET /uploads", caller |-> caller, params |-> params,
                 reply |-> getUpload(caller.user, caller.token, params, store)]
    /\ UNCHANGED <<now, store, held, client>>

GetUpload == GetUploadWith(UploadParams)

\* the files of an upload are on disk before the reply; the client keeps the
\* signed URLs of the reply
PostUpload ==
    /\ Idle
    /\ \E user \in Users, form \in UploadForms,
          files \in SeqUpTo(UploadNames, MaxUpload), tenantState \in TenantStates :
        LET r == postUpload(user, form, files, tenantState, store, now)
        IN  /\ Cardinality(r.store) <= MaxFiles
            /\ store' = r.store
            /\ held' = IF r.status = 200
                       THEN {Issued(user,
                                    [tenantId |-> user.tenantId,
                                     scope |-> r.data[i].scope,
                                     ownerId |-> r.data[i].ownerId,
                                     filename |-> r.data[i].filename],
                                    "view", r.data[i].url, r.data[i].expiresAt)
                             : i \in 1..Len(files)}
                       ELSE held
            /\ last' = [op |-> "POST /uploads", user |-> user, form |-> form,
                        files |-> files, before |-> store, reply |-> r]
    /\ UNCHANGED <<now, client>>

DeleteUpload ==
    /\ Idle
    /\ \E user \in Users, params \in UploadParams \cup ParamsOf(store),
          tracking \in TrackingOutcomes :
        LET r == deleteUpload(user, params, store, tracking)
        IN  /\ store' = r.store
            /\ last' = [op |-> "DELETE /uploads", user |-> user, params |-> params,
                        tracking |-> tracking, before |-> store, reply |-> r]
    /\ UNCHANGED <<now, held, client>>

\* the reply has gone out
Reply ==
    /\ ~Idle
    /\ last' = Nothing
    /\ UNCHANGED <<now, store, held, client>>

Next ==
    \/ Tick
    \/ PostSignedUrl
    \/ PostSignedUrlsBatch
    \/ GetSecure
    \/ GetUpload
    \/ DeleteUpload
    \/ Reply

Spec == Init /\ [][Next]_vars

---------------------------------------------------------------------------
(* The life of uploaded files: uploads, the URLs of their replies being
   presented, and deletions, at one instant of the clock *)

FilesInit ==
    /\ now \in {0, 1, MsPerMinute}
    /\ store \in SUBSET Paths
    /\ held = {}
    /\ last = Nothing
    /\ client = NoCall

FilesNext ==
    \/ PostUpload
    \/ GetSecure
    \/ DeleteUpload
    \/ Reply

FilesSpec == FilesInit /\ [][FilesNext]_vars

---------------------------------------------------------------------------
(* Requests whose scope, ownerId or filename hold '..' or a separator *)

\* bodies of POST /signed-url
DotBodies ==
    [tenantId : {Undef}, scope : {"tasks", "..", "../B/tasks"},
     ownerId : {"o1", "B"}, filename : Filenames, action : {Undef},
     expiresInMinutes : {NoMinutes}]

\* path parameters of the legacy endpoint; the filename is decoded a second
\* time by the handler, so %2F in it becomes a separator
DotParams ==
    [tenantId : Tenants, scope : {"tasks", ".."}, ownerId : {"o1", "B"},
     filename : {"x.png", "tasks%2Fo1%2Fx.png"}]

PostDotSignedUrl == PostSignedUrlWith(DotBodies)

GetDotUpload == GetUploadWith(DotParams)

DotNext ==
    \/ PostDotSignedUrl
    \/ GetSecure
    \/ GetDotUpload
    \/ Reply

DotSpec == Init /\ [][DotNext]_vars

---------------------------------------------------------------------------
(* The browser side as a state machine: calls of the migration helper *)

ConverterInit ==
    /\ now \in {0, MsPerMinute}
    /\ store = {}
    /\ held = {}
    /\ last = Nothing
    /\ client = NoCall

Extract ==
    /\ client = NoCall
    /\ \E url \in ClientUrls(now) :
        client' = [op |-> "extract", url |-> url,
                   metadata |-> extractFileMetadataFromUrl(url)]
    /\ UNCHANGED <<now, store, held, last>>

Convert ==
    /\ client = NoCall
    /\ \E url \in ClientUrls(now), issuance \in Issuances :
        client' = [op |-> "convert", url |-> url, issuance |-> issuance,
                   first |-> convertToSignedUrl(url, issuance, now)]
    /\ UNCHANGED <<now, store, held, last>>

\* the result of a conversion is converted again
ConvertAgain ==
    /\ client.op = "convert"
    /\ \E issuance \in Issuances :
        client' = [op |-> "convert again", url |-> client.url,
                   issuance |-> client.issuance, first |-> client.first,
                   again |-> issuance,
                   second |-> convertToSignedUrl(client.first.value, issuance, now)]
    /\ UNCHANGED <<now, store, held, last>>

Return ==
    /\ client # NoCall
    /\ client' = NoCall
    /\ UNCHANGED <<now, store, held, last>>

ConverterNext ==
    \/ Extract
    \/ Convert
    \/ ConvertAgain
    \/ Return

ConverterSpec == ConverterInit /\ [][ConverterNext]_vars

---------------------------------------------------------------------------
(* useConvertedUrl (file-url-converter.ts 128-147): a mounted component whose
   url prop changes while conversions are in flight *)

\* the values of the url prop: none, '', a signed URL, an upload URL without
\* a token, and two legacy URLs
HookUrls ==
    {NoUrl, <<>>,
     UrlString(generateSignedUrl(
         [tenantId |-> "A", scope |-> "tasks", ownerId |-> "o1",
          filename |-> "a.png", action |-> Undef,
          expiresInMinutes |-> NoMinutes], 0).url),
     LegacyPath("A", "tasks", "o1", "x.png"),
     LegacyPath("A", "tasks", "o1", "x.png") \o Str(<<"?", "token", "=", "xyz">>),
     LegacyPath("A", "tasks", "o1", "report%20final.pdf")
         \o Str(<<"?", "token", "=", "xyz">>)}

\* the effect of lines 131-144 for a url: the state it sets at once, or the
\* conversion it starts
useEffect(url) ==
    IF url = NoUrl \/ url = <<>> THEN [set |-> Null]
    ELSE IF ~isOldTokenUrl(url) THEN [set |-> [value |-> url]]
    ELSE [start |-> url]

\* mounted with no url: convertedUrl is null and nothing is in flight
HookInit ==
    /\ now = 0
    /\ store = {}
    /\ held = {}
    /\ last = Nothing
    /\ client = [op |-> "hook", url |-> NoUrl, convertedUrl |-> Null,
                 pending |-> {}, renders |-> 0]

\* the component is rendered with another url and the effect runs
Rerender ==
    /\ client.renders < MaxRenders
    /\ \E url \in HookUrls \ {client.url} :
        LET effect == useEffect(url)
            n == client.renders + 1
        IN  client' =
                IF "set" \in DOMAIN effect
                THEN [client EXCEPT !.url = url, !.renders = n,
                                    !.convertedUrl = effect.set]
                ELSE [client EXCEPT !.url = url, !.renders = n,
                                    !.pending = @ \cup {[n |-> n, url |-> effect.start]}]
    /\ UNCHANGED <<now, store, held, last>>

\* a conversion in flight settles and its then-callback sets the state
Settle ==
    /\ \E c \in client.pending, issuance \in Issuances :
        client' = [client EXCEPT
                     !.pending = @ \ {c},
                     !.convertedUrl =
                         [value |-> convertToSignedUrl(c.url, issuance, now).value]]
    /\ UNCHANGED <<now, store, held, last>>

HookNext ==
    \/ Rerender
    \/ Settle

HookSpec == HookInit /\ [][HookNext]_vars

\* what the hook returns for a url once its own effect and conversion are done
Converted(url) ==
    IF "set" \in DOMAIN useEffect(url)
    THEN {useEffect(url).set}
    ELSE {[value |-> convertToSignedUrl(url, issuance, now).value]
          : issuance \in Issuances}

---------------------------------------------------------------------------
(* MultiFilePreview (multi-file-preview.tsx 168-223, 290-297): a mounted
   component whose files prop changes while URL generations are in flight *)

\* FileMetadata objects without a URL of their own, and one that has one
MetaA == [filename |-> "a.png", scope |-> "tasks", ownerId |-> "o1",
          tenantId |-> "A", url |-> <<>>]
MetaX == [filename |-> "x.png", scope |-> "tasks", ownerId |-> "o1",
          tenantId |-> "A", url |-> <<>>]
MetaU == [filename |-> "u.png", scope |-> "tasks", ownerId |-> "o1",
          tenantId |-> "A",
          url |-> Str(<<"https:", "/", "/", "cdn.example", "/", "u.png">>)]

\* the values of the files prop
PreviewLists == {<<>>, <<MetaA>>, <<MetaX>>, <<MetaU>>, <<MetaA, MetaX>>}

\* getFileUrl(file) of a FileMetadata: signedUrl || url || null, '' for none
getFileUrl(file) == file.url

\* lines 183-211 for one file: the entry it adds to newSignedUrls, if any
\* (an existing http URL is skipped, a failed generation is logged)
signedUrlEntry(file, issuance, t) ==
    LET existingUrl == getFileUrl(file)
        signedUrl == generateSignedUrlOnce(file, issuance, t)
    IN  IF existingUrl # <<>> /\ startsWithHttp(existingUrl) THEN {}
        ELSE IF Falsy(file.filename) \/ Falsy(file.scope) \/ Falsy(file.ownerId)
        THEN {}
        ELSE IF Threw(signedUrl) \/ signedUrl.value = NoUrl THEN {}
        ELSE IF startsWithHttp(signedUrl.value) THEN {signedUrl.value}
        ELSE {ServerUrl \o signedUrl.value}

\* newSignedUrls of a generation: pairs of index and URL
newSignedUrls(files, issuances, t) ==
    UNION {{<<i - 1, u>> : u \in signedUrlEntry(files[i], issuances[i], t)}
           : i \in 1..Len(files)}

\* signedUrls.get(index), '' for undefined
mapGet(signedUrls, index) ==
    IF \E e \in signedUrls : e[1] = index
    THEN (CHOOSE e \in signedUrls : e[1] = index)[2]
    ELSE <<>>

\* lines 290-297: displayUrl of the file at index (no blob preview here)
displayUrl(signedUrls, files, index) ==
    LET generatedSignedUrl == mapGet(signedUrls, index)
        fileUrl == getFileUrl(files[index + 1])
    IN  IF generatedSignedUrl # <<>> THEN generatedSignedUrl ELSE fileUrl

\* mounted with no files
PreviewInit ==
    /\ now = 0
    /\ store = {}
    /\ held = {}
    /\ last = Nothing
    /\ client = [op |-> "preview", files |-> <<>>, signedUrls |-> {},
                 pending |-> {}, renders |-> 0]

\* the component is rendered with another files array: the effect of line 176
\* calls generateUrls
NewFiles ==
    /\ client.renders < MaxRenders
    /\ \E files \in PreviewLists \ {client.files} :
        client' = [client EXCEPT
                     !.files = files, !.renders = @ + 1,
                     !.pending = @ \cup {[n |-> client.renders + 1, files |-> files]}]
    /\ UNCHANGED <<now, store, held, last>>

\* the Promise.all of a generation settles: the map is replaced when the new
\* one has an entry
Generated ==
    /\ \E c \in client.pending :
        \E issuances \in [1..Len(c.files) -> {"relative", "rejects"}] :
            LET new == newSignedUrls(c.files, issuances, now)
            IN  client' = [client EXCEPT
                             !.pending = @ \ {c},
                             !.signedUrls = IF new # {} THEN new ELSE @]
    /\ UNCHANGED <<now, store, held, last>>

PreviewNext ==
    \/ NewFiles
    \/ Generated

PreviewSpec == PreviewInit /\ [][PreviewNext]_vars

\* the signed URLs that belong to a file
UrlsOf(file) ==
    UNION {signedUrlEntry(file, issuance, now) : issuance \in {"relative", "absolute"}}

---------------------------------------------------------------------------
(* Shorthands of the properties *)

Served(op) == last.op = op

\* the fields verification must give back for an issued URL
ExpectedResult(u) ==
    [valid |-> TRUE,
     tenantId |-> IF Falsy(u.grant.tenantId) THEN u.to ELSE u.grant.tenantId,
     scope |-> u.grant.scope, ownerId |-> u.grant.ownerId,
     filename |-> u.grant.filename,
     action |-> IF u.grant.action = Undef THEN "view" ELSE u.grant.action]

\* grants with all four fields non-empty and a positive expiresInMinutes
ValidGrantInputs ==
    [tenantId : Tenants, scope : Scopes, ownerId : Owners, filename : Filenames,
     action : {Undef} \cup Actions, expiresInMinutes : {<<1>>, <<2>>}]

---------------------------------------------------------------------------
(* C1: for every grant with non-empty tenantId, scope, ownerId, filename and
   a positive expiresInMinutes, generateSignedUrl returns a URL, and
   verifySignedUrl of the token inside it, at any time up to expiresAt,
   returns valid:true with exactly the issued tenantId, scope, ownerId,
   filename and action ("view" when none was given).  Checked for every
   such grant at the current time and at its expiry, and for the URLs the
   gateway handed out as the clock advances.  (The property reads now and
   held only, which a reply leaves alone: it is evaluated between requests.) *)
C1_IssuedTokenVerifies ==
    Idle =>
    /\ \A p \in ValidGrantInputs :
        LET r == generateSignedUrl(p, now)
            want == [valid |-> TRUE, tenantId |-> p.tenantId, scope |-> p.scope,
                     ownerId |-> p.ownerId, filename |-> p.filename,
                     action |-> IF p.action = Undef THEN "view" ELSE p.action]
        IN  /\ ~Threw(r)
            /\ r.url.prefix = UrlPrefix
            /\ \A t \in {now, r.expiresAt - 1, r.expiresAt} :
                   verifySignedUrl(r.url.token, t) = want
    /\ \A u \in held :
        now <= u.expiresAt => verifySignedUrl(u.url.token, now) = ExpectedResult(u)

\* a URL issued earlier for action "download" was presented later, before its
\* expiry, and verified
C1_Witness ==
    /\ Served("GET /secure")
    /\ \E u \in held : /\ u.url.token = last.token
                       /\ u.issuedAt < now /\ now <= u.expiresAt
                       /\ u.grant.action = "download"
    /\ last.verified.valid

---------------------------------------------------------------------------
(* C2 (as amended): every correctly signed token verified at a time after
   its expiresAt gives valid:false with expired:true; the same token
   verified 1 ms before expiresAt gives valid:true; and once a token has
   been reported expired, no later verification reports it valid (a verdict
   can only change when the clock moves). *)
C2_ExpiredAfterExpiry ==
    /\ [](Idle => \A u \in held :
            /\ now > u.expiresAt =>
                 verifySignedUrl(u.url.token, now) = [valid |-> FALSE, expired |-> TRUE]
            /\ verifySignedUrl(u.url.token, u.expiresAt - 1).valid
            /\ verifySignedUrl(u.url.token, u.expiresAt + 1)
                 = [valid |-> FALSE, expired |-> TRUE])
    /\ [][now' # now =>
            \A token \in Presentable(held) :
                IsTrue(verifySignedUrl(token, now), "expired")
                    => ~verifySignedUrl(token, now').valid]_vars

\* a held URL was presented after its expiry and reported expired
C2_Witness ==
    /\ Served("GET /secure")
    /\ \E u \in held : u.url.token = last.token /\ now > u.expiresAt
    /\ IsTrue(last.verified, "expired")

(* C2 as stated: also a token issued with expiresInMinutes = -1 is reported
   expired, so an otherwise acceptable issuance request with
   expiresInMinutes = -1 yields a token, and that token verifies as
   valid:false, expired:true. *)
C2_Original ==
    (/\ Served("POST /signed-url")
     /\ ~Falsy(last.body.filename) /\ ~Falsy(last.body.scope) /\ ~Falsy(last.body.ownerId)
     /\ OrElse(last.body.tenantId, last.user.tenantId) = last.user.tenantId
     /\ <<last.user.tenantId, last.body.scope, last.body.ownerId, last.body.filename>>
            \in store
     /\ last.body.expiresInMinutes = <<-1>>)
    => /\ "url" \in DOMAIN last.reply
       /\ verifySignedUrl(last.reply.url.token, now) = [valid |-> FALSE, expired |-> TRUE]

---------------------------------------------------------------------------
(* C3: a token obtained from an issued one by inverting any one bit of its
   signature segment makes verifySignedUrl return valid:false, and the
   serving endpoint streams no file for it. *)
C3_TamperedSignatureRejected ==
    (Served("GET /secure") /\ last.token \in SignatureFlipped(held))
    => /\ ~last.verified.valid
       /\ "stream" \notin DOMAIN last.reply
       /\ last.reply.status # 200

\* the untampered token is valid right now and its file is on disk, and the
\* same token with one signature bit inverted was presented
C3_Witness ==
    /\ Served("GET /secure")
    /\ \E t \in Genuine(held) :
        /\ verifySignedUrl(t, now).valid
        /\ getSecure(t, store, now).status = 200
        /\ \E i \in 1..SigBits : last.token = <<t[1], FlipBit(t[2], i)>>
    /\ last.reply.status = 403

---------------------------------------------------------------------------
(* C4: a verification result carries tenantId, scope, ownerId, filename and
   action when valid is true, and none of them when valid is false (token
   malformed, expired, or signature mismatch). *)
C4_NoFieldsUnlessValid ==
    Served("GET /secure")
    => IF last.verified.valid
       THEN GrantKeys \subseteq DOMAIN last.verified
       ELSE DOMAIN last.verified \cap (GrantKeys \cup {"expiresAt", "issuedAt"}) = {}

\* a token with a readable payload and somebody else's signature was refused
C4_Witness ==
    /\ Served("GET /secure")
    /\ decode(last.token).ok
    /\ last.token \in PayloadSwapped(held)
    /\ ~last.verified.valid

---------------------------------------------------------------------------
(* C5: verifySignedUrl never throws: for every token string (no '.',
   several '.', payload not base64url, payload not JSON, JSON lacking a
   required field) it returns a result, and for a token that cannot be
   decoded the result is valid:false without expired:true. *)
C5_VerifyNeverThrows ==
    Served("GET /secure")
    => /\ ~Threw(last.verified)
       /\ "valid" \in DOMAIN last.verified
       /\ ~decode(last.token).ok => last.verified = [valid |-> FALSE]

\* a token that does not decode was presented and answered
C5_Witness ==
    /\ Served("GET /secure")
    /\ ~decode(last.token).ok
    /\ Len(last.token) = 2
    /\ last.reply.status = 403

---------------------------------------------------------------------------
(* C6: GET /files/secure/{token} answers exactly one of: 410 when
   verification gives valid:false with expired:true; 403 when it gives
   valid:false otherwise; 404 when the token is valid and no file is at
   storageRoot/tenantId/scope/ownerId/filename; the file stream (200) when
   the token is valid and the file exists.  Bytes are streamed only in the
   last case. *)
C6_ServingOutcomes ==
    Served("GET /secure")
    => LET v == last.verified
           r == last.reply
           expired == ~v.valid /\ IsTrue(v, "expired")
           onDisk == v.valid /\ <<v.tenantId, v.scope, v.ownerId, v.filename>> \in store
       IN  /\ r.status \in {410, 403, 404, 200}
           /\ r.status = 410 <=> expired
           /\ r.status = 403 <=> (~v.valid /\ ~expired)
           /\ r.status = 404 <=> (v.valid /\ ~onDisk)
           /\ r.status = 200 <=> onDisk
           /\ "stream" \in DOMAIN r <=> onDisk
           /\ onDisk => r.stream = <<v.tenantId, v.scope, v.ownerId, v.filename>>

\* a valid token whose file is not on disk was answered 404
C6_Witness ==
    /\ Served("GET /secure")
    /\ last.verified.valid
    /\ last.reply.status = 404

---------------------------------------------------------------------------
(* C7 as stated: the gateway never gives a caller of tenant B a file of
   tenant A: whenever a file is streamed, it belongs to the tenant of the
   caller it is streamed to. *)
C7_Original ==
    /\ (Served("GET /secure") /\ "stream" \in DOMAIN last.reply)
           => last.reply.stream[1] = last.presenter
    /\ (Served("GET /uploads") /\ "stream" \in DOMAIN last.reply
            /\ last.caller.user.present)
           => last.reply.stream[1] = last.caller.user.tenantId

(* C7 (as amended): the tenant-match check of the gateway is made where a
   caller is authenticated.  A caller of tenant B asking either issuance
   endpoint for a file of tenant A is answered 403 whether or not the file
   exists, so every signed URL carries the tenant of the caller it was
   issued to; the legacy endpoint answers 403 to an established caller of
   another tenant.  GET /files/secure/{token} makes no tenant check: what it
   streams is the file of the tenant named in a token the server signed,
   whoever presents it. *)
C7_TenantMatchAtIssuance ==
    /\ \A u \in held : decode(u.url.token).grant.tenantId = u.to
    /\ (Served("POST /signed-url")
            /\ ~Falsy(last.body.filename) /\ ~Falsy(last.body.scope)
            /\ ~Falsy(last.body.ownerId)
            /\ OrElse(last.body.tenantId, last.user.tenantId) # last.user.tenantId)
           => last.reply = [status |-> 403]
    /\ (Served("POST /signed-urls/batch")
            /\ \E i \in 1..Len(last.body.files) :
                   OrElse(last.body.files[i].tenantId, last.user.tenantId)
                       # last.user.tenantId)
           => last.reply = [status |-> 403]
    /\ (Served("GET /uploads") /\ last.caller.user.present
            /\ last.caller.user.tenantId # last.params.tenantId)
           => last.reply = [status |-> 403]
    /\ (Served("GET /secure") /\ "stream" \in DOMAIN last.reply)
           => /\ verifySignature(last.token[1], last.token[2])
              /\ decode(last.token).grant.tenantId = last.reply.stream[1]

\* a caller asked for an existing file of the other tenant and was refused
C7_Witness ==
    /\ Served("POST /signed-url")
    /\ last.body.tenantId \in Tenants \ {last.user.tenantId}
    /\ <<last.body.tenantId, last.body.scope, last.body.ownerId, last.body.filename>>
           \in store
    /\ last.reply.status = 403

---------------------------------------------------------------------------
(* C8: POST /signed-url returns a signed URL only when filename, scope and
   ownerId are all present, the grant's tenant (the request's tenantId, or
   the caller's when omitted) is the caller's tenant, and the file exists;
   otherwise it answers 400 for a missing field, else 403 for a tenant
   mismatch, else 404 for an absent file, and issues nothing. *)
C8_SingleIssuance ==
    Served("POST /signed-url")
    => LET b == last.body
           r == last.reply
           missing == Falsy(b.filename) \/ Falsy(b.scope) \/ Falsy(b.ownerId)
           tenant == IF Falsy(b.tenantId) THEN last.user.tenantId ELSE b.tenantId
           mismatch == tenant # last.user.tenantId
           exists == <<tenant, b.scope, b.ownerId, b.filename>> \in store
       IN  /\ "url" \in DOMAIN r => (~missing /\ ~mismatch /\ exists /\ r.status = 200)
           /\ r.status = 200 => "url" \in DOMAIN r
           /\ missing => r = [status |-> 400]
           /\ (~missing /\ mismatch) => r = [status |-> 403]
           /\ (~missing /\ ~mismatch /\ ~exists) => r = [status |-> 404]
           /\ r.status # 200 => DOMAIN r = {"status"}

\* a request lacking a field, for the other tenant, was answered 400
C8_Witness ==
    /\ Served("POST /signed-url")
    /\ Falsy(last.body.scope)
    /\ last.body.tenantId \in Tenants \ {last.user.tenantId}
    /\ last.reply.status = 400

---------------------------------------------------------------------------
(* C9: batch issuance is all-or-nothing on tenancy: if any file of the
   request names a tenant other than the caller's, the answer is 403 and
   carries no signed URL; otherwise every URL returned carries the caller's
   tenant. *)
C9_BatchTenancy ==
    Served("POST /signed-urls/batch")
    => LET files == last.body.files
           r == last.reply
           foreign == {i \in 1..Len(files) :
                          ~Falsy(files[i].tenantId)
                          /\ files[i].tenantId # last.user.tenantId}
       IN  /\ foreign # {} => r = [status |-> 403]
           /\ "data" \in DOMAIN r =>
                /\ foreign = {}
                /\ Len(r.data) = Len(files)
                /\ \A i \in 1..Len(r.data) :
                     decode(r.data[i].url.token).grant.tenantId = last.user.tenantId

\* a batch whose first file is the caller's and whose second is not
C9_Witness ==
    /\ Served("POST /signed-urls/batch")
    /\ Len(last.body.files) = 2
    /\ OrElse(last.body.files[1].tenantId, last.user.tenantId) = last.user.tenantId
    /\ ~Falsy(last.body.files[1].filename)
    /\ last.body.files[2].tenantId \in Tenants \ {last.user.tenantId}
    /\ last.reply.status = 403

---------------------------------------------------------------------------
(* C10: the legacy endpoint GET /uploads/{tenantId}/{scope}/{ownerId}/
   {filename} answers 403 only when a caller was established (request.user,
   or a token that verifies) and its tenant differs from the path's
   tenantId; with no token, or a token that fails verification, it serves
   the file on the path alone, 404 if the file is absent. *)
C10_LegacyServing ==
    Served("GET /uploads")
    => LET c == last.caller
           r == last.reply
           established == c.user.present \/ (c.token.present /\ c.token.verifies)
           file == <<last.params.tenantId, last.params.scope, last.params.ownerId,
                     IF last.params.filename = "x%2Epng" THEN "x.png"
                     ELSE last.params.filename>>
       IN  /\ r.status = 403 => established
           /\ (r.status = 403 /\ c.user.present)
                  => c.user.tenantId # last.params.tenantId
           /\ (r.status = 403 /\ ~c.user.present /\ ~Falsy(c.token.tenantId))
                  => c.token.tenantId # last.params.tenantId
           /\ ~established =>
                  IF file \in store
                  THEN r = [status |-> 200, stream |-> file]
                  ELSE r = [status |-> 404]

---------------------------------------------------------------------------
(* C11 as stated: for any input url, converting the result of a conversion
   gives that result again, also when the issuance call of the second
   conversion comes out differently from that of the first. *)
C11_Original ==
    client.op = "convert again" => client.second.value = client.first.value

(* C11 (as amended): convertToSignedUrl(y) = y, with no issuance request,
   for every result y of a conversion that is not a legacy URL, which is the
   case whenever the conversion succeeded (a converted URL is never a legacy
   URL).  When the conversion fell back to the original legacy URL, a second
   call repeats the attempt: it gives the same result if its issuance call
   comes out as the first one did. *)
C11_IdempotentUnlessFallback ==
    client.op = "convert again" =>
        /\ (client.first.requests = 1 /\ client.first.value # client.url)
               => ~isOldTokenUrl(client.first.value)
        /\ ~isOldTokenUrl(client.first.value)
               => client.second = [value |-> client.first.value, requests |-> 0]
        /\ isOldTokenUrl(client.first.value) => client.first.value = client.url
        /\ client.again = client.issuance
               => client.second.value = client.first.value

\* a legacy URL was converted to a signed URL, and converting that signed URL
\* again, with an issuance call that would reject, gave it back
C11_Witness ==
    /\ client.op = "convert again"
    /\ isOldTokenUrl(client.url)
    /\ client.first.requests = 1 /\ client.first.value # client.url
    /\ client.again = "rejects"
    /\ client.second.value = client.first.value

---------------------------------------------------------------------------
(* C12 as stated: for every url that is not a legacy URL, a missing one
   included, convertToSignedUrl returns its input unchanged and makes no
   issuance request. *)
C12_Original ==
    (client.op = "convert" /\ ~isOldTokenUrl(client.url))
        => client.first = [value |-> client.url, requests |-> 0]

(* C12 (as amended): for every url string that is not a legacy URL,
   convertToSignedUrl returns the input unchanged and makes no issuance
   request; for a missing url it returns the empty string, also without an
   issuance request. *)
C12_NonLegacyUnchanged ==
    (client.op = "convert" /\ ~isOldTokenUrl(client.url))
        => /\ client.first.requests = 0
           /\ client.url # NoUrl => client.first.value = client.url
           /\ client.url = NoUrl => client.first.value = <<>>

\* a signed URL of the service was given to convertToSignedUrl
C12_Witness ==
    /\ client.op = "convert"
    /\ client.url \in SignedUrls(now)
    /\ client.issuance = "relative"
    /\ client.first = [value |-> client.url, requests |-> 0]

---------------------------------------------------------------------------
(* C13: convertToSignedUrl never raises to its caller; for a legacy URL
   whose grant fields cannot be extracted, or whose issuance call rejects or
   resolves to something that is no string, the promise resolves to the
   original URL unchanged. *)
C13_NeverRaises ==
    client.op = "convert" =>
        /\ ~Threw(client.first)
        /\ isOldTokenUrl(client.url) =>
            LET metadata == extractFileMetadataFromUrl(client.url)
            IN  /\ metadata = Null
                       => client.first = [value |-> client.url, requests |-> 0]
                /\ (metadata # Null /\ client.issuance \in {"rejects", "undefined"})
                       => client.first = [value |-> client.url, requests |-> 1]

\* the issuance call for an extractable legacy URL answered without a URL
C13_Witness ==
    /\ client.op = "convert"
    /\ isOldTokenUrl(client.url)
    /\ extractFileMetadataFromUrl(client.url) # Null
    /\ client.issuance = "undefined"
    /\ client.first.value = client.url

---------------------------------------------------------------------------
(* C14: new-format extraction: for every grant the issuance operation can
   sign, filenames with non-ASCII characters included,
   extractFileMetadataFromUrl applied to the generated signed URL returns
   exactly the tenantId, scope, ownerId and filename of the grant, whatever
   the signature segment is. *)
C14_NewFormatExtraction ==
    client.op = "extract" =>
        \A p \in SignableInputs :
            LET url == UrlString(generateSignedUrl(p, now).url)
            IN  client.url \in {url, Resigned(url)}
                    => client.metadata = [filename |-> p.filename, scope |-> p.scope,
                                          ownerId |-> p.ownerId, tenantId |-> p.tenantId]

---------------------------------------------------------------------------
(* C15: legacy extraction: for a URL whose path is
   .../uploads/{tenantId}/{scope}/{ownerId}/{filename}, with any query
   string, extractFileMetadataFromUrl returns the three segments after
   'uploads' as they stand as tenantId, scope and ownerId, and the
   URL-decoded fourth segment as filename: report%20final.pdf gives
   "report final.pdf". *)
C15_LegacyExtraction ==
    client.op = "extract" =>
        \A b \in Bases, t \in PathTenants, sc \in Scopes, o \in Owners,
           f \in EncodedFilenames \ {"100%.png"}, q \in Queries :
            client.url = b \o LegacyPath(t, sc, o, f) \o q
                => /\ client.metadata =
                        [filename |-> decodeURIComponent(f).value, scope |-> sc,
                         ownerId |-> o, tenantId |-> t]
                   /\ f = "report%20final.pdf"
                        => client.metadata.filename = "report final.pdf"

\* the URL of the specification's example, behind the API prefix
C15_Witness ==
    /\ client.op = "extract"
    /\ client.url = Str(<<"/", "api", "/", "v1">>)
                    \o LegacyPath("t%201", "tasks", "o1", "report%20final.pdf")
                    \o Str(<<"?", "token", "=", "xyz">>)
    /\ client.metadata = [filename |-> "report final.pdf", scope |-> "tasks",
                          ownerId |-> "o1", tenantId |-> "t%201"]

---------------------------------------------------------------------------
(* C16: extractFileMetadataFromUrl never throws, and returns null when the
   URL has no 'uploads' segment followed by four segments and no token
   after '/files/secure/', when the payload of the token after
   '/files/secure/' is not base64 or not JSON, and when the filename
   segment is not valid percent-encoding. *)
C16_NullNeverThrows ==
    client.op = "extract" =>
        /\ ~Threw(client.metadata)
        /\ client.url \in {NoUrl, <<>>} => client.metadata = Null
        /\ \A q \in Queries :
            /\ \A u \in OtherPaths : client.url = u \o q => client.metadata = Null
            /\ \A u \in BrokenSecureUrls : client.url = u \o q => client.metadata = Null
            /\ \A b \in Bases, t \in PathTenants :
                   client.url = b \o LegacyPath(t, "tasks", "o1", "100%.png") \o q
                       => client.metadata = Null

\* an uploads URL whose filename segment has a '%' that starts no escape
C16_Witness ==
    /\ client.op = "extract"
    /\ client.url = LegacyPath("A", "tasks", "o1", "100%.png")
                    \o Str(<<"?", "token", "=", "xyz">>)
    /\ client.metadata = Null

---------------------------------------------------------------------------
(* C17: isOldTokenUrl(url) is true if and only if the string contains
   '?token=' or '&token='; it is false for an empty or missing url, and
   false for every URL the issuance operation produces. *)
C17_IsLegacyUrl ==
    client.op \in {"extract", "convert"} =>
        LET marked == \E q \in TokenQueries :
                          /\ Len(client.url) >= Len(q)
                          /\ SubSeq(client.url, Len(client.url) - Len(q) + 1,
                                    Len(client.url)) = q
        IN  /\ isOldTokenUrl(client.url) <=> marked
            /\ client.url \in {NoUrl, <<>>} => ~isOldTokenUrl(client.url)
            /\ client.url \in SignedUrls(now) => ~isOldTokenUrl(client.url)
            /\ (client.op = "convert" /\ client.first.requests = 1) => marked

\* a URL marked by '&token=' only was taken for a legacy URL and converted
C17_Witness ==
    /\ client.op = "convert"
    /\ client.url = LegacyPath("A", "tasks", "o1", "x.png")
                    \o Str(<<"?", "v", "=", "1", "&", "token", "=", "xyz">>)
    /\ isOldTokenUrl(client.url)
    /\ client.first.requests = 1

---------------------------------------------------------------------------
(* C18: round trip: for every valid grant G, decode(encode(G)) is G, and the
   token encode produces is one payload segment and one signature segment,
   both in the base64url alphabet, joined by exactly one '.'.  Checked for
   the valid grants of the model and for the token inside every URL a
   conversion obtained from the issuance operation. *)
C18_RoundTrip ==
    /\ client.op \in {"extract", "convert"} =>
        \A G \in [tenantId : PathTenants, scope : Scopes, ownerId : Owners,
                  filename : ClientFilenames \cup {"report final.pdf"},
                  action : Actions, issuedAt : {now},
                  expiresAt : {now + MsPerMinute,
                               now + DEFAULT_EXPIRY_MINUTES * MsPerMinute}] :
            /\ decode(encode(G)) = [ok |-> TRUE, error |-> "", grant |-> G]
            /\ Len(encode(G)) = 2
            /\ \A i \in 1..2 : encode(G)[i].alphabet = "base64url"
    /\ (client.op = "convert" /\ client.first.requests = 1
            /\ client.first.value # client.url) =>
        LET url == client.first.value
            k == Len(url)
            asked == extractFileMetadataFromUrl(client.url)
        IN  /\ {i \in (k - 2)..k : url[i] = Ch(".")} = {k - 1}
            /\ decode(<<url[k - 2].p, url[k].g>>)
                 = [ok |-> TRUE, error |-> "",
                    grant |-> [tenantId |-> asked.tenantId, scope |-> asked.scope,
                               ownerId |-> asked.ownerId, filename |-> asked.filename,
                               action |-> "view", issuedAt |-> now,
                               expiresAt |-> now + DEFAULT_EXPIRY_MINUTES * MsPerMinute]]

\* a legacy URL of a file with a non-ASCII name was converted: the token of
\* the signed URL decodes to the grant asked for
C18_Witness ==
    /\ client.op = "convert"
    /\ client.first.requests = 1 /\ client.first.value # client.url
    /\ decode(<<client.first.value[Len(client.first.value) - 2].p,
                client.first.value[Len(client.first.value)].g>>).grant.filename
         = "α.png"

---------------------------------------------------------------------------
(* C19: generateSignedUrl fails with InvalidGrantError, and returns no URL,
   whenever tenantId, scope, ownerId or filename is missing or empty or
   expiresInMinutes is zero or negative.  The gateway passes
   expiresInMinutes (both endpoints) and the scope and filename of a batch
   file to it as they came in the request body, so such a request, once
   past the checks of the handler, ends in that error (status 500) and in no
   signed URL. *)
C19_InvalidGrantError ==
    /\ Idle =>
        \A p \in [tenantId : {"A", Undef, ""}, scope : {"tasks", Undef, ""},
                  ownerId : {"o1", Undef, ""}, filename : {"x.png", Undef, ""},
                  action : {Undef, "download"},
                  expiresInMinutes : {NoMinutes, <<-1>>, <<0>>, <<1>>}] :
            (\/ Falsy(p.tenantId) \/ Falsy(p.scope) \/ Falsy(p.ownerId)
             \/ Falsy(p.filename) \/ p.expiresInMinutes \in {<<-1>>, <<0>>})
                <=> generateSignedUrl(p, now) = [threw |-> "InvalidGrantError"]
    /\ (Served("POST /signed-url") /\ last.body.expiresInMinutes \in {<<-1>>, <<0>>})
           => /\ last.reply.status \in {400, 403, 404, 500}
              /\ "url" \notin DOMAIN last.reply
              /\ (/\ ~Falsy(last.body.filename) /\ ~Falsy(last.body.scope)
                  /\ ~Falsy(last.body.ownerId)
                  /\ OrElse(last.body.tenantId, last.user.tenantId) = last.user.tenantId
                  /\ <<last.user.tenantId, last.body.scope, last.body.ownerId,
                       last.body.filename>> \in store)
                     => last.reply = [status |-> 500]
    /\ (Served("POST /signed-urls/batch") /\ Len(last.body.files) > 0
            /\ \A i \in 1..Len(last.body.files) :
                   OrElse(last.body.files[i].tenantId, last.user.tenantId)
                       = last.user.tenantId)
           => ((\/ last.body.expiresInMinutes \in {<<-1>>, <<0>>}
                \/ \E i \in 1..Len(last.body.files) :
                       Falsy(last.body.files[i].scope) \/ Falsy(last.body.files[i].filename))
                  <=> last.reply = [status |-> 500])

\* an otherwise good request for an existing file with expiresInMinutes 0
C19_Witness ==
    /\ Served("POST /signed-url")
    /\ last.body.expiresInMinutes = <<0>>
    /\ <<last.user.tenantId, last.body.scope, last.body.ownerId, last.body.filename>>
           \in store
    /\ OrElse(last.body.tenantId, last.user.tenantId) = last.user.tenantId
    /\ last.reply = [status |-> 500]

---------------------------------------------------------------------------
(* C20: every grant issued has expiresAt = issuedAt + expiresInMinutes *
   60000, with 60 for an absent expiresInMinutes, hence expiresAt > issuedAt;
   the expiresAt returned is the one inside the token; and expiresIn of the
   issuance endpoint is max(0, whole seconds from now to expiresAt). *)
C20_ExpiryArithmetic ==
    /\ Served("POST /signed-url") /\ last.reply.status = 200 =>
        LET r == last.reply
            grant == decode(r.url.token).grant
            minutes == IF last.body.expiresInMinutes = NoMinutes
                       THEN 60 ELSE last.body.expiresInMinutes[1]
            remaining == (r.expiresAt - now) \div 1000
        IN  /\ grant.issuedAt = now
            /\ grant.expiresAt = grant.issuedAt + minutes * 60000
            /\ grant.expiresAt > grant.issuedAt
            /\ r.expiresAt = grant.expiresAt
            /\ r.expiresIn = IF remaining > 0 THEN remaining ELSE 0
            /\ r.expiresIn = minutes * 60
    /\ \A u \in held :
        LET grant == decode(u.url.token).grant
        IN  /\ grant.issuedAt = u.issuedAt
            /\ grant.expiresAt = u.expiresAt
            /\ grant.expiresAt > grant.issuedAt
            /\ \E minutes \in {1, 60} :
                   grant.expiresAt = grant.issuedAt + minutes * 60000
    /\ Idle => \A expiresAt \in {now - 1, now, now + 999, now + 1000, now + 1999} :
        getTimeRemaining(expiresAt, now)
            = IF expiresAt - now >= 1000 THEN 1 ELSE 0

\* a URL was issued without expiresInMinutes after the clock had moved
C20_Witness ==
    /\ Served("POST /signed-url")
    /\ last.reply.status = 200
    /\ last.body.expiresInMinutes = NoMinutes
    /\ now > 0
    /\ last.reply.expiresAt = now + 3600000
    /\ last.reply.expiresIn = 3600

---------------------------------------------------------------------------
(* C22 *)

\* what a DELETE request in flight was asked to remove
DeletePath ==
    pathJoin(<<last.params.tenantId, last.params.scope, last.params.ownerId,
               decodeURIComponent(last.params.filename).value>>)

DeleteMatched == String(last.user.tenantId) = String(last.params.tenantId)

DeleteFound ==
    /\ ~Threw(decodeURIComponent(last.params.filename))
    /\ DeletePath \in last.before

\* C22: the DELETE endpoint removes a file from disk only after the caller's
\* tenant matched the path tenant, the file was found, and trackFileDeletion
\* returned without throwing; when trackFileDeletion throws the reply is 500
\* and the file is still on disk; a tracked:false result does not stop the
\* deletion; and no other request of the gateway removes a file.
C22_DeleteAfterTracking ==
    /\ [](Served("DELETE /uploads") =>
            /\ store # last.before =>
                /\ DeleteMatched /\ DeleteFound
                /\ last.tracking # "throws"
                /\ store = last.before \ {DeletePath}
                /\ last.reply.calls = <<"access", "trackFileDeletion", "unlink">>
            /\ (DeleteMatched /\ DeleteFound /\ last.tracking = "throws") =>
                /\ last.reply.status = 500
                /\ store = last.before
                /\ DeletePath \in store
            /\ (DeleteMatched /\ DeleteFound /\ last.tracking = "untracked") =>
                /\ last.reply.status = 200
                /\ DeletePath \notin store)
    /\ [][store' # store => last'.op = "DELETE /uploads"]_vars

\* a file was found, its deletion was not tracked, and it is gone
C22_Witness ==
    /\ Served("DELETE /uploads")
    /\ DeleteMatched /\ DeleteFound
    /\ last.tracking = "untracked"
    /\ last.reply.status = 200
    /\ DeletePath \in last.before \ store

---------------------------------------------------------------------------
(* C21 *)

\* the files the entries of an upload reply name
UploadedPaths ==
    IF last.reply.status = 200
    THEN {<<String(last.user.tenantId), e.scope, e.ownerId, e.filename>>
          : e \in {last.reply.data[i] : i \in 1..Len(last.reply.data)}}
    ELSE {}

\* C21: issuance and verification are stateless.  Serving a token leaves the
\* disk as it was, and an upload changes it by the files it wrote and nothing
\* else, so generateSignedUrl and verifySignedUrl change nothing; and every URL
\* of the latest upload reply verifies with its grant whatever was uploaded,
\* served or deleted since (its file included): the outcome follows from the
\* token, the secret and the clock.
C21_Stateless ==
    /\ [](\A u \in held : verifySignedUrl(u.url.token, now) = ExpectedResult(u))
    /\ [](Served("GET /secure") =>
            /\ last.verified = verifySignedUrl(last.token, now)
            /\ last.token \in Genuine(held) => last.reply.status \in {200, 404})
    /\ [](Served("POST /uploads") => store = last.before \cup UploadedPaths)
    /\ [][last'.op = "GET /secure" => store' = store]_vars

\* the URL of an upload reply is presented after its file was deleted: it
\* verifies, and the file is missing
C21_Witness ==
    /\ Served("GET /secure")
    /\ last.token \in Genuine(held)
    /\ last.verified.valid
    /\ last.reply.status = 404
    /\ Cardinality(store) > 0

---------------------------------------------------------------------------
(* C23 *)

\* C23: when the url prop of useConvertedUrl has changed and every pending
\* conversion has settled, in whatever order, the hook returns the value
\* derived from the latest url (null, the url itself, or its conversion),
\* never the result of a conversion started for an earlier url.
C23_ConvergesToLatest ==
    (client.op = "hook" /\ client.pending = {})
        => client.convertedUrl \in Converted(client.url)

---------------------------------------------------------------------------
(* C24 *)

\* C24: in MultiFilePreview, once the generations in flight have settled, the
\* generated signed URL shown at position i was generated for the file that
\* is at position i now: no entry of a signedUrls map computed from an
\* earlier files array is displayed.
C24_UrlOfCurrentFile ==
    (client.op = "preview" /\ client.pending = {}) =>
        \A i \in 0..(Len(client.files) - 1) :
            mapGet(client.signedUrls, i) # <<>> =>
                displayUrl(client.signedUrls, client.files, i)
                    \in UrlsOf(client.files[i + 1])

---------------------------------------------------------------------------
(* C25 *)

\* a resolved path lies beneath uploads/{tenantId}
Beneath(filePath, tenantId) == Len(filePath) > 1 /\ filePath[1] = String(tenantId)

\* C25: path containment: the path resolved for the existence check of an
\* issuance, for serving a signed token, and for legacy serving lies beneath
\* uploads/{tenantId} of the tenant that passed the tenant check, whatever
\* scope, ownerId and filename are, '..' and separators included.
C25_PathContainment ==
    /\ (Served("POST /signed-url") /\ last.reply.status \in {200, 404})
           => Beneath(pathJoin(<<String(OrElse(last.body.tenantId, last.user.tenantId)),
                                 last.body.scope, String(last.body.ownerId),
                                 last.body.filename>>),
                      last.user.tenantId)
    /\ (Served("GET /secure") /\ last.verified.valid)
           => Beneath(pathJoin(<<last.verified.tenantId, last.verified.scope,
                                 last.verified.ownerId, last.verified.filename>>),
                      last.verified.tenantId)
    /\ (Served("GET /uploads") /\ last.reply.status \in {200, 404})
           => Beneath(pathJoin(<<last.params.tenantId, last.params.scope,
                                 last.params.ownerId,
                                 decodeURIComponent(last.params.filename).value>>),
                      last.params.tenantId)

---------------------------------------------------------------------------
(* C26 *)

\* the query of a request without a token, and with one jwt.verify rejects
Tokenless ==
    {NoToken,
     [present |-> TRUE, verifies |-> FALSE, tenantId |-> Undef, userId |-> Undef]}

\* what the path of a legacy request alone comes to
PathOnly(params, st) ==
    LET decodedFilename == decodeURIComponent(params.filename)
        filePath == <<params.tenantId, params.scope, params.ownerId,
                      decodedFilename.value>>
    IN  IF Threw(decodedFilename) THEN [status |-> 500]
        ELSE IF filePath \in st THEN [status |-> 200, stream |-> filePath]
        ELSE [status |-> 404]

(* C26 as stated: on the legacy endpoint every request that is denied with
   403 while carrying a token is served when the same request is sent with
   no token or with an unverifiable one. *)
C26_Original ==
    (Served("GET /uploads") /\ last.caller.token.present /\ last.reply.status = 403)
        => \A t \in Tokenless :
               getUpload(last.caller.user, t, last.params, store).status = 200

(* C26 (as amended): on the legacy endpoint a request that carries a token
   and is denied with 403 because of it (no user was established before the
   handler) is answered, when sent with no token or with an unverifiable
   one, by what its path alone comes to: the file when it exists, 404 when
   it does not, 500 when the filename cannot be decoded, never 403.  A
   request of an established user is answered the same with and without the
   token.  Whenever a request carrying a token is served, the same request
   without it is served the same file: the token never grants access. *)
C26_TokenOnlyDenies ==
    (Served("GET /uploads") /\ last.caller.token.present)
        => \A t \in Tokenless :
             LET without == getUpload(last.caller.user, t, last.params, store)
             IN  /\ (last.reply.status = 403 /\ ~last.caller.user.present)
                        => without = PathOnly(last.params, store)
                 /\ last.caller.user.present => without = last.reply
                 /\ last.reply.status = 200 => without = last.reply
                 /\ last.reply.status # 403 => without = last.reply

\* a token of the other tenant was refused a file that exists
C26_Witness ==
    /\ Served("GET /uploads")
    /\ ~last.caller.user.present
    /\ last.caller.token.present /\ last.caller.token.verifies
    /\ last.reply.status = 403
    /\ PathOnly(last.params, store).status = 200

---------------------------------------------------------------------------
(* C27 *)

\* C27: a valid token whose payload segment is changed in any way (tenantId,
\* filename, action or expiresAt replaced) while its signature segment is
\* kept verifies as valid:false and is refused; and no token is accepted as
\* valid unless its signature segment is the MAC, made with the server
\* secret, of exactly its payload segment.
C27_PayloadBoundToSignature ==
    Served("GET /secure") =>
        /\ last.token \in PayloadSwapped(held)
               => /\ last.verified = [valid |-> FALSE]
                  /\ last.reply = [status |-> 403]
        /\ last.verified.valid
               => /\ Len(last.token) = 2
                  /\ last.token[2] = Signature(hmac(SECRET, last.token[1]), {})

\* the token is valid and its file on disk, and it was presented with
\* another tenant, filename, action or expiry in its payload
C27_Witness ==
    /\ Served("GET /secure")
    /\ Len(last.token) = 2
    /\ \E t \in Genuine(held) :
        /\ getSecure(t, store, now).status = 200
        /\ last.token[2] = t[2]
        /\ last.token[1] \in AlteredPayloads(t)
        /\ decode(last.token).ok
    /\ last.reply.status = 403

---------------------------------------------------------------------------
(* C28 *)

\* the token has two segments and the second is the MAC of the first
SignatureVerifies(token) ==
    Len(token) = 2 /\ verifySignature(token[1], token[2])

\* C28: a token whose signature does not verify is answered 403 by the
\* serving endpoint whatever its payload says; expired:true, and 410, are
\* reported only for tokens whose signature verifies, so a payload with a
\* past expiresAt under a foreign or altered signature is invalid, not
\* expired.
C28_ExpiredOnlyIfSigned ==
    Served("GET /secure") =>
        /\ ~SignatureVerifies(last.token)
               => /\ last.reply = [status |-> 403]
                  /\ ~IsTrue(last.verified, "expired")
        /\ (IsTrue(last.verified, "expired") \/ last.reply.status = 410)
               => SignatureVerifies(last.token)

\* a well-formed payload with a past expiresAt, signed with another key, was
\* presented and refused as invalid
C28_Witness ==
    /\ Served("GET /secure")
    /\ last.token \in SelfSigned
    /\ decode(last.token).ok
    /\ decode(last.token).grant.expiresAt < now
    /\ last.reply = [status |-> 403]

---------------------------------------------------------------------------
(* C29 *)

\* the file a request entry names, for a caller
NamedPath(user, file) ==
    pathJoin(<<String(OrElse(file.tenantId, user.tenantId)), file.scope,
               String(file.ownerId), file.filename>>)

\* C29: every signed URL the issuance endpoints hand out refers to a file
\* that is on the store when it is issued and whose filename, scope and
\* ownerId were given: POST /signed-url, and POST /signed-urls/batch for
\* every entry of its reply.
C29_IssuedForExistingFile ==
    /\ (Served("POST /signed-url") /\ "url" \in DOMAIN last.reply)
           => /\ ~Falsy(last.body.filename) /\ ~Falsy(last.body.scope)
              /\ ~Falsy(last.body.ownerId)
              /\ NamedPath(last.user, last.body) \in store
    /\ (Served("POST /signed-urls/batch") /\ "data" \in DOMAIN last.reply)
           => \A i \in 1..Len(last.reply.data) :
                  LET file == last.body.files[i]
                  IN  /\ ~Falsy(file.filename) /\ ~Falsy(file.scope)
                      /\ ~Falsy(file.ownerId)
                      /\ NamedPath(last.user, file) \in store

---------------------------------------------------------------------------
(* C30 *)

\* a grant field that is a non-empty string
Given(v) == v # Undef /\ v # ""

\* C30: whenever extractFileMetadataFromUrl returns a result other than
\* null, its tenantId, scope, ownerId and filename are non-empty strings,
\* for signed URLs and for legacy paths alike, so convertToSignedUrl makes an
\* issuance request only with all four fields given.
C30_ExtractedFieldsGiven ==
    /\ (client.op = "extract" /\ client.metadata # Null)
           => /\ Given(client.metadata.tenantId) /\ Given(client.metadata.scope)
              /\ Given(client.metadata.ownerId) /\ Given(client.metadata.filename)
    /\ (client.op = "convert" /\ client.first.requests > 0)
           => LET metadata == extractFileMetadataFromUrl(client.url)
              IN  /\ Given(metadata.tenantId) /\ Given(metadata.scope)
                  /\ Given(metadata.ownerId) /\ Given(metadata.filename)

===========================================================================
